---- MODULE Spec2Model ----
(***************************************************************************)
(* The CDR engine of main/cdr.c: the per-channel chains of cdr_object      *)
(* records, the two indexes, the six-state virtual tables and the message  *)
(* router callbacks (channel cache update, dial, bridge enter, bridge      *)
(* leave) together with the API calls that touch the chains.               *)
(***************************************************************************)
EXTENDS Integers, Sequences, FiniteSets, TLC

(* ----------------------------- bounds ---------------------------------- *)
\* Total number of router callbacks and API calls in one behaviour.
MaxEvents == 5
\* Channel snapshot updates (other than creation and removal) in one behaviour.
MaxUpdates == 2
\* Dial messages in one behaviour.
MaxDials == 3
\* API calls (fork, reset) in one behaviour.
MaxApi == 1
MaxPairEvents == 8
MaxPairDials == 1
\* The publisher threads that may be inside handle_bridge_enter_message at once.
MaxThreads == 2
MaxLockEvents == 12
MaxLockDials == 2
\* The latest answer or end time of a billsec computation, in milliseconds.
MaxMillis == 3000
\* The rows of one post_cdr call.
MaxRows == 2
\* The latest creation time of a party snapshot, in seconds.
MaxCreationSec == 2
\* The latest clock reading at which a function is called on its own.
MaxCallTime == 2
\* The events of a run with one call and one call of the channel's API.
MaxApiEvents == 6

(* --------------------------- input domains ----------------------------- *)
Channels == {"A", "B", "C"}
Bridges == {"b1"}
DialStatuses == {"ANSWER", "BUSY"}

(* ------------------------------ state ---------------------------------- *)
VARIABLES
    chains,                  \* every chain ever allocated: chain id -> sequence of cdr_object
    active_cdrs_by_channel,  \* the channel index: sequence of chain ids, in link order
    active_cdrs_by_bridge,   \* the bridge index: sequence of chain ids, in link order
    global_cdr_sequence,     \* the sequence counter
    dispatched,              \* the chains handed to cdr_detach, as rows, in order
    now,                     \* the clock read by ast_tvnow
    mod_cfg,                 \* the module configuration (general settings)
    cache,                   \* the bus's channel cache: name -> latest snapshot
    created,                 \* the channel names the bus has announced
    in_bridge,               \* the bridge each channel is in, as the bus knows it
    budget,                  \* what the environment has delivered so far
    crashed,                 \* a handler has read through a null pointer
    bus,                     \* the channel names and the number of messages the run uses
    api_thread,              \* the channel thread inside ast_cdr_fork, if any
    running,                 \* cdr_engine_shutdown has not been called
    lock_audit,              \* what the last step did without the locks it needed
    leaked,                  \* the chain locks a thread still owns after its call returned
    router_threads,          \* the publisher threads inside handle_bridge_enter_message
    call,                    \* a call of one function on its own: arguments and result
    last_event               \* the callback or API call that made the current state

vars == <<chains, active_cdrs_by_channel, active_cdrs_by_bridge, global_cdr_sequence,
          dispatched, now, mod_cfg, cache, created, in_bridge, budget,
          crashed, bus, api_thread, running, lock_audit, leaked, router_threads,
          call, last_event>>

(* ----------------------- snapshots and records ------------------------- *)
\* struct ast_channel_snapshot, the fields the engine reads. An absent
\* snapshot (a NULL pointer) is the snapshot with the empty name.
NullSnapshot ==
    [name |-> "", up |-> FALSE, zombie |-> FALSE, outgoing |-> FALSE,
     originated |-> FALSE, cep |-> 0, appl |-> "", hangupcause |-> "NONE",
     creationtime |-> [tv_sec |-> 0, tv_usec |-> 0]]

\* struct cdr_object_snapshot
NullParty == [snapshot |-> NullSnapshot, userfield |-> "", flags |-> {}, variables |-> {}]

HasSnapshot(party) == party.snapshot.name # ""

\* ao2_find(active_cdrs_by_channel, name, OBJ_KEY): the first linked chain
\* whose head carries that name; 0 when there is none.
RECURSIVE FindFrom(_, _, _, _)
FindFrom(ch, index, name, k) ==
    IF k > Len(index) THEN 0
    ELSE IF ch[index[k]][1].name = name THEN index[k]
    ELSE FindFrom(ch, index, name, k + 1)

ao2_find_channel(ch, index, name) == FindFrom(ch, index, name, 1)

\* ao2_link: the container keeps every link, duplicates included.
ao2_link(index, c) == Append(index, c)

\* The chain ids an index holds.
Linked(index) == {index[k] : k \in 1..Len(index)}

\* ao2_unlink: removes one link of the object.
RECURSIVE UnlinkFrom(_, _, _)
UnlinkFrom(index, c, k) ==
    IF k > Len(index) THEN index
    ELSE IF index[k] = c
         THEN SubSeq(index, 1, k - 1) \o SubSeq(index, k + 1, Len(index))
         ELSE UnlinkFrom(index, c, k + 1)

ao2_unlink(index, c) == UnlinkFrom(index, c, 1)

\* cdr_object_bridge_cmp_fn: a chain matches a bridge id when any of its
\* records carries it.
cdr_object_bridge_cmp_fn(chain, bridge_id) ==
    \E i \in 1..Len(chain) : chain[i].bridge = bridge_id

\* ao2_callback(active_cdrs_by_bridge, OBJ_MULTIPLE | OBJ_KEY, cmp, id): the
\* linked chains that match, in index order.
BridgeLookup(ch, index, bridge_id) ==
    SelectSeq(index, LAMBDA c : cdr_object_bridge_cmp_fn(ch[c], bridge_id))

(* ------------------------ record-level functions ----------------------- *)
\* snapshot_is_dialed
snapshot_is_dialed(snapshot) == snapshot.outgoing /\ ~snapshot.originated

\* cdr_object_pick_party_a: "left" or "right". The second Party A flag test
\* reads the right-hand flags twice, as the source does.
cdr_object_pick_party_a(left, right) ==
    IF ~snapshot_is_dialed(left.snapshot) /\ snapshot_is_dialed(right.snapshot) THEN "left"
    ELSE IF snapshot_is_dialed(left.snapshot) /\ ~snapshot_is_dialed(right.snapshot) THEN "right"
    ELSE IF "PartyA" \in left.flags /\ "PartyA" \notin right.flags THEN "left"
    ELSE IF "PartyA" \notin right.flags /\ "PartyA" \in right.flags THEN "right"
    ELSE IF left.snapshot.creationtime.tv_sec < right.snapshot.creationtime.tv_sec
         THEN "left"
    ELSE IF left.snapshot.creationtime.tv_sec > right.snapshot.creationtime.tv_sec
         THEN "right"
    ELSE IF left.snapshot.creationtime.tv_usec > right.snapshot.creationtime.tv_usec
         THEN "right"
    ELSE "left"

\* The name of the snapshot cdr_object_pick_party_a returns.
PickedName(left, right) ==
    IF cdr_object_pick_party_a(left, right) = "left"
    THEN left.snapshot.name ELSE right.snapshot.name

\* A variable list is kept as the set of its <<name, value>> entries.
\* copy_variables: the entries with a name and a value are added to to_list.
copy_variables(to_list, from_list) ==
    to_list \cup {v \in from_list : v[1] # "" /\ v[2] # ""}

\* set_variable: the entry of that name is replaced.
set_variable(headp, name, value) ==
    {v \in headp : v[1] # name} \cup {<<name, value>>}

\* cdr_object_update_cid. The caller id fields of the snapshots are the empty
\* string throughout, so every comparison finds them equal.
cdr_object_update_cid(variables) ==
    set_variable(set_variable(set_variable(variables, "dnid", ""),
                              "callingsubaddr", ""),
                 "calledsubaddr", "")

\* cdr_object_snapshot_copy: snapshot, userfield and flags of src, and its
\* variables on top of those dst has.
cdr_object_snapshot_copy(dst, src) ==
    [dst EXCEPT !.snapshot = src.snapshot, !.userfield = src.userfield,
                !.flags = src.flags,
                !.variables = copy_variables(@, src.variables)]

\* cdr_object_swap_snapshot: the wrapper keeps its userfield and flags.
cdr_object_swap_snapshot(party, new_snapshot) ==
    [party EXCEPT !.snapshot = new_snapshot,
                  !.variables = cdr_object_update_cid(@)]

\* cdr_object_set_disposition
cdr_object_set_disposition(cdr, hangupcause) ==
    CASE hangupcause = "BUSY" -> [cdr EXCEPT !.disposition = "BUSY"]
      [] hangupcause = "CONGESTION" ->
            [cdr EXCEPT !.disposition =
                IF mod_cfg.congestion THEN "CONGESTION" ELSE "FAILED"]
      [] hangupcause \in {"NO_ROUTE_DESTINATION", "UNREGISTERED"} ->
            [cdr EXCEPT !.disposition = "FAILED"]
      [] hangupcause \in {"NORMAL_CLEARING", "NO_ANSWER"} ->
            [cdr EXCEPT !.disposition = "NOANSWER"]
      [] OTHER -> cdr

\* A finalize without the early return: the end time is stamped again.
FinalizeAgain(cdr) ==
    [cdr EXCEPT !.end = now,
                !.disposition = IF @ # "NULL" THEN @
                                ELSE IF cdr.answer # 0 THEN "ANSWERED" ELSE "FAILED"]

\* cdr_object_finalize
cdr_object_finalize(cdr) ==
    IF cdr.end # 0 THEN cdr
    ELSE LET ended == [cdr EXCEPT !.end = now]
         IN  IF ended.disposition # "NULL" THEN ended
             ELSE IF ended.answer # 0 THEN [ended EXCEPT !.disposition = "ANSWERED"]
             ELSE IF ended.party_a.snapshot.hangupcause # "NONE"
                  THEN cdr_object_set_disposition(ended, ended.party_a.snapshot.hangupcause)
             ELSE IF HasSnapshot(ended.party_b)
                     /\ ended.party_b.snapshot.hangupcause # "NONE"
                  THEN cdr_object_set_disposition(ended, ended.party_b.snapshot.hangupcause)
             ELSE [ended EXCEPT !.disposition = "FAILED"]

\* cdr_object_check_party_a_answer
cdr_object_check_party_a_answer(cdr) ==
    IF cdr.party_a.snapshot.up /\ cdr.answer = 0
    THEN [cdr EXCEPT !.answer = now] ELSE cdr

\* single_state_init_function
single_state_init_function(cdr) ==
    cdr_object_check_party_a_answer([cdr EXCEPT !.start = now])

\* finalized_state_init_function
finalized_state_init_function(cdr) ==
    IF ~mod_cfg.end_before_h_exten THEN cdr ELSE cdr_object_finalize(cdr)

\* cdr_object_transition_state for the tables whose init hook touches the
\* record alone (every table but Pending, whose hook goes through the
\* channel index: see pending_state_init_function).
cdr_object_transition_state(cdr, fn_table) ==
    LET moved == [cdr EXCEPT !.fn_table = fn_table]
    IN  CASE fn_table = "Single" -> single_state_init_function(moved)
          [] fn_table = "Finalized" -> finalized_state_init_function(moved)
          [] OTHER -> moved

\* cdr_object_check_party_a_hangup
\* A hangup test that never finds a hangup.
NoHangupCheck(cdr) == cdr

cdr_object_check_party_a_hangup(cdr) ==
    IF cdr.party_a.snapshot.zombie /\ cdr.fn_table # "Finalized"
    THEN cdr_object_transition_state(cdr, "Finalized") ELSE cdr

\* cdr_object_alloc: the record as allocated, at position `at` of its chain,
\* with sequence number `seq`.
cdr_object_alloc(chan, at, seq) ==
    cdr_object_transition_state(
        [party_a |-> [NullParty EXCEPT !.snapshot = chan],
         party_b |-> NullParty,
         fn_table |-> "NONE",
         disposition |-> "NULL",
         start |-> 0, answer |-> 0, end |-> 0,
         sequence |-> seq,
         flags |-> {},
         name |-> chan.name,
         bridge |-> "",
         appl |-> "",
         last |-> at],
        "Single")

\* The append loop of cdr_object_create_and_append: every record from the
\* one the call was made on to the tail gets the new record as `last`; the
\* records before it keep theirs.
Relink(chain, from, new_at) ==
    [j \in 1..Len(chain) |->
        IF j >= from THEN [chain[j] EXCEPT !.last = new_at] ELSE chain[j]]

\* cdr_object_create_and_append on record `i` of `chain`: the chain with the
\* new record at its tail, built from the record `last_at` that `last`
\* designated when the call read it.
AppendAfter(chain, i, last_at, seq) ==
    LET cdr_last == chain[last_at]
        at == Len(chain) + 1
        fresh == cdr_object_alloc(cdr_last.party_a.snapshot, at, seq)
        new_cdr == [fresh EXCEPT
                       !.appl = cdr_last.appl,
                       !.party_a = cdr_object_snapshot_copy(fresh.party_a, cdr_last.party_a)]
    IN  Append(Relink(chain, i, at), new_cdr)

cdr_object_create_and_append(chain, i, seq) ==
    AppendAfter(chain, i, chain[i].last, seq)

\* base_process_party_a. The application is taken over unless the snapshot
\* has none, or has an AppDial one while the record has one already.
base_process_party_a(cdr, snapshot) ==
    LET swapped == [cdr EXCEPT
                       !.party_a = cdr_object_swap_snapshot(cdr.party_a, snapshot),
                       !.appl = IF /\ snapshot.appl # ""
                                   /\ (snapshot.appl # "AppDial" \/ cdr.appl = "")
                                THEN snapshot.appl ELSE cdr.appl]
    IN  cdr_object_check_party_a_hangup(cdr_object_check_party_a_answer(swapped))

\* A Finalized table whose Party A handler is the base one.
FinalizedTakesSnapshot(cdr, snapshot) == base_process_party_a(cdr, snapshot)

\* finalized_state_process_party_a: reads the record's own snapshot, not the
\* one it is handed.
finalized_state_process_party_a(cdr, snapshot) ==
    IF cdr.party_a.snapshot.zombie THEN cdr_object_finalize(cdr) ELSE cdr

(* ------------------------- chain-level functions ----------------------- *)
\* What a handler works on: the chains, the sequence counter, the indexes
\* and the dispatch log, with the handler's locals (the last return value of
\* a virtual call, the and-ed result of a loop, the scan's success flag, the
\* first record that handled a bridge enter), the chain locks the thread
\* holds (a lock held twice is there twice), the chains it has written
\* without holding their lock, and the index operations it has made while
\* holding a chain lock.
Engine ==
    [ch |-> chains, seq |-> global_cdr_sequence,
     by_channel |-> active_cdrs_by_channel, by_bridge |-> active_cdrs_by_bridge,
     dispatched |-> dispatched, crash |-> FALSE,
     ret |-> 0, res |-> 1, success |-> 1, handled_cdr |-> 0,
     held |-> <<>>, unlocked |-> {}, nested |-> {},
     thread |-> "router", owned |-> leaked, blocked |-> FALSE, nomem |-> FALSE]

\* The same for a call made on a channel thread.
ApiEngine == [Engine EXCEPT !.thread = "api"]

\* A lock that is taken whatever another thread owns.
LockNeverWaits(st, c) == [st EXCEPT !.held = Append(@, c)]

\* ao2_lock on the head of chain c. The lock is a recursive mutex: the
\* thread waits for ever (blocked) when another thread owns it and has
\* returned without releasing it.
ao2_lock(st, c) ==
    [st EXCEPT !.held = Append(@, c),
               !.blocked = @ \/ \E l \in st.owned : l.chain = c /\ l.thread # st.thread]

\* What the chain lock protects of a record: the parties, the state, the
\* times, the disposition and the link.
Guarded(cdr) ==
    <<cdr.party_a, cdr.party_b, cdr.fn_table, cdr.start, cdr.answer, cdr.end,
      cdr.disposition, cdr.last>>

\* The chains that engine state st has different from `locked` although the
\* thread did not hold their lock in between.
RacyWrites(locked, st) ==
    {k \in 1..Len(locked.ch) :
        /\ k \notin Linked(locked.held)
        /\ [j \in 1..Len(st.ch[k]) |-> Guarded(st.ch[k][j])]
              # [j \in 1..Len(locked.ch[k]) |-> Guarded(locked.ch[k][j])]}

\* ao2_unlock on the head of chain c, at the end of the stretch of code that
\* began in engine state `locked` and held the same locks throughout; c is 0
\* for a stretch that took no lock.
ao2_unlock(locked, st, c) ==
    [st EXCEPT !.held = UnlinkFrom(@, c, 1),
               !.unlocked = @ \cup RacyWrites(locked, st)]

\* An operation on one of the two indexes takes that index's lock: noted
\* when the thread holds a chain lock at that point.
IndexLocked(st, op) ==
    IF st.held = <<>> THEN st ELSE [st EXCEPT !.nested = @ \cup {op}]

\* `res &= ret` in the handlers' loops; a record whose table lacks the
\* handler (ret = 2) is skipped.
AndRet(st) == [st EXCEPT !.res = IF st.ret = 0 THEN 0 ELSE @]

\* The loop of ast_cdr_set_property over the chain it found: the option is
\* set on every record that is not in the Finalized state.
SetOption(ch, c, option) ==
    IF c = 0 THEN ch
    ELSE [ch EXCEPT ![c] =
            [j \in 1..Len(ch[c]) |->
                IF ch[c][j].fn_table = "Finalized" THEN ch[c][j]
                ELSE [ch[c][j] EXCEPT !.flags = @ \cup {option}]]]

ast_cdr_set_property(ch, index, channel_name, option) ==
    SetOption(ch, ao2_find_channel(ch, index, channel_name), option)

\* The loop of ast_cdr_clear_property.
ClearOption(ch, c, option) ==
    IF c = 0 THEN ch
    ELSE [ch EXCEPT ![c] =
            [j \in 1..Len(ch[c]) |->
                IF ch[c][j].fn_table = "Finalized" THEN ch[c][j]
                ELSE [ch[c][j] EXCEPT !.flags = @ \ {option}]]]

ast_cdr_clear_property(ch, index, channel_name, option) ==
    ClearOption(ch, ao2_find_channel(ch, index, channel_name), option)

\* pending_state_init_function, reached from cdr_object_transition_state:
\* record i of chain c enters Pending and Disable is set through
\* ast_cdr_set_property on the chain linked under the record's name.
pending_state_init_function(ch, index, c, i) ==
    ast_cdr_set_property([ch EXCEPT ![c][i].fn_table = "Pending"], index,
                         ch[c][i].name, "Disable")

\* The step every Pending handler starts with: the record moves to Single
\* and Disable is cleared through ast_cdr_clear_property.
PendingToSingle(ch, index, c, i) ==
    ast_cdr_clear_property(
        [ch EXCEPT ![c][i] = cdr_object_transition_state(ch[c][i], "Single")],
        index, ch[c][i].name, "Disable")

\* cdr_object_create_and_append on record i of chain c, with the counter.
AppendTo(st, c, i) ==
    [st EXCEPT !.ch[c] = cdr_object_create_and_append(st.ch[c], i, st.seq),
               !.seq = @ + 1]

\* The CEP comparison of dialed_pending_state_process_party_a (context,
\* extension, priority and application).
DialedPendingCepChange(cdr, snapshot) ==
    snapshot.cep # cdr.party_a.snapshot.cep \/ snapshot.appl # cdr.party_a.snapshot.appl

\* The CEP comparison of pending_state_process_party_a (context, extension
\* and priority).
PendingCepChange(cdr, snapshot) == snapshot.cep # cdr.party_a.snapshot.cep

\* dialed_pending_state_process_party_a: the record afterwards.
dialed_pending_state_process_party_a(cdr, snapshot) ==
    IF DialedPendingCepChange(cdr, snapshot)
    THEN IF HasSnapshot(cdr.party_b)
         THEN finalized_state_process_party_a(cdr_object_transition_state(cdr, "Finalized"),
                                              snapshot)
         ELSE base_process_party_a(cdr_object_transition_state(cdr, "Single"), snapshot)
    ELSE base_process_party_a(cdr, snapshot)

\* The end of pending_state_process_party_a, the record being Single.
PendingPartyA(single, c, i, snapshot) ==
    [single EXCEPT ![c][i] = base_process_party_a(single[c][i], snapshot)]

\* fn_table->process_party_a on record i of chain c.
process_party_a(st, c, i, snapshot) ==
    CASE st.ch[c][i].fn_table \in {"Single", "Dial", "Bridged"} ->
           [st EXCEPT !.ch[c][i] = base_process_party_a(st.ch[c][i], snapshot),
                      !.ret = 0]
      [] st.ch[c][i].fn_table = "DialedPending" ->
           [st EXCEPT !.ch[c][i] = dialed_pending_state_process_party_a(st.ch[c][i], snapshot),
                      !.ret = IF DialedPendingCepChange(st.ch[c][i], snapshot)
                                 /\ HasSnapshot(st.ch[c][i].party_b)
                              THEN 1 ELSE 0]
      [] st.ch[c][i].fn_table = "Pending" ->
           \* pending_state_process_party_a
           IF snapshot.zombie \/ ~PendingCepChange(st.ch[c][i], snapshot)
           THEN [st EXCEPT !.ret = 0]
           ELSE [IndexLocked(st, "ao2_find") EXCEPT
                    !.ch = PendingPartyA(PendingToSingle(st.ch, st.by_channel, c, i),
                                         c, i, snapshot),
                    !.ret = 0]
      [] OTHER ->
           [st EXCEPT !.ch[c][i] = finalized_state_process_party_a(st.ch[c][i], snapshot),
                      !.ret = 1]

\* The Party A loop of handle_channel_cache_message over chain c, from
\* record i on; st.res is all_reject.
RECURSIVE PartyALoop(_, _, _, _)
PartyALoop(st, c, i, snapshot) ==
    IF i > Len(st.ch[c]) THEN st
    ELSE PartyALoop(AndRet(process_party_a(st, c, i, snapshot)), c, i + 1, snapshot)

\* check_new_cdr_needed
\* A test that asks for a new record on every update.
NewCdrAlwaysNeeded(old_snapshot, new_snapshot) == new_snapshot.name # ""

check_new_cdr_needed(old_snapshot, new_snapshot) ==
    IF new_snapshot.name = "" THEN FALSE
    ELSE IF new_snapshot.zombie THEN FALSE
    ELSE IF new_snapshot.appl = "" THEN FALSE
    ELSE IF old_snapshot.name # "" /\ old_snapshot.cep = new_snapshot.cep
            /\ old_snapshot.appl = new_snapshot.appl THEN FALSE
    ELSE TRUE

\* dial_state_process_party_b and bridge_state_process_party_b
state_process_party_b(cdr, snapshot) ==
    IF ~HasSnapshot(cdr.party_b) \/ cdr.party_b.snapshot.name # snapshot.name THEN cdr
    ELSE IF snapshot.zombie
    THEN cdr_object_transition_state(
             [cdr EXCEPT !.party_b = cdr_object_swap_snapshot(cdr.party_b, snapshot)],
             "Finalized")
    ELSE [cdr EXCEPT !.party_b = cdr_object_swap_snapshot(cdr.party_b, snapshot)]

\* cdr_object_update_party_b on one chain. The Single table's handler only
\* asserts; DialedPending, Pending and Finalized have none.
cdr_object_update_party_b(chain, party_b) ==
    [j \in 1..Len(chain) |->
        IF chain[j].fn_table \in {"Dial", "Bridged"}
           /\ HasSnapshot(chain[j].party_b)
           /\ chain[j].party_b.snapshot.name = party_b.name
        THEN state_process_party_b(chain[j], party_b)
        ELSE chain[j]]

\* cdr_object_finalize_party_b on one chain.
cdr_object_finalize_party_b(chain, party_b) ==
    [j \in 1..Len(chain) |->
        IF HasSnapshot(chain[j].party_b) /\ chain[j].party_b.snapshot.name = party_b.name
        THEN cdr_object_finalize(chain[j])
        ELSE chain[j]]

\* The division and the remainder of C on long int: the quotient is
\* truncated toward zero and the remainder has the sign of the dividend.
Quot(a, b) == IF a >= 0 THEN a \div b ELSE -((-a) \div b)

Rem(a, b) == a - b * Quot(a, b)

\* A billsec that never counts the second begun.
BillsecTruncated(answer, end, initiatedseconds) ==
    IF answer = 0 THEN 0 ELSE Quot(end - answer, 1000)

\* cdr_object_get_billsec on an answer and an end time in milliseconds
\* (0 is the unset time), with the initiatedseconds setting.
BillsecOf(answer, end, initiatedseconds) ==
    IF answer = 0 THEN 0
    ELSE IF initiatedseconds /\ Rem(end - answer, 1000) >= 500
         THEN Quot(end - answer, 1000) + 1
    ELSE Quot(end - answer, 1000)

\* cdr_object_get_duration and cdr_object_get_billsec, in whole clock units.
cdr_object_get_duration(cdr) ==
    IF cdr.end = 0 THEN now - cdr.start ELSE cdr.end - cdr.start

\* The clock of the engine ticks in whole seconds, where initiatedseconds
\* makes no difference.
cdr_object_get_billsec(cdr) ==
    BillsecOf(cdr.answer * 1000, cdr.end * 1000, FALSE)

\* cdr_object_create_public_records: one row per record whose Party A is
\* not a dialed channel, in chain order.
PublicRecord(cdr) ==
    [channel |-> cdr.party_a.snapshot.name,
     dstchannel |-> cdr.party_b.snapshot.name,
     start |-> cdr.start, answer |-> cdr.answer, end |-> cdr.end,
     duration |-> cdr_object_get_duration(cdr),
     billsec |-> cdr_object_get_billsec(cdr),
     disposition |-> cdr.disposition,
     sequence |-> cdr.sequence,
     flags |-> cdr.flags]

\* A builder that skips no record.
RECURSIVE PublicRecordsOfAll(_, _)
PublicRecordsOfAll(chain, i) ==
    IF i > Len(chain) THEN <<>>
    ELSE <<PublicRecord(chain[i])>> \o PublicRecordsOfAll(chain, i + 1)

RECURSIVE PublicRecordsFrom(_, _)
PublicRecordsFrom(chain, i) ==
    IF i > Len(chain) THEN <<>>
    ELSE IF snapshot_is_dialed(chain[i].party_a.snapshot)
         THEN PublicRecordsFrom(chain, i + 1)
         ELSE <<PublicRecord(chain[i])>> \o PublicRecordsFrom(chain, i + 1)

cdr_object_create_public_records(chain) == PublicRecordsFrom(chain, 1)

\* cdr_object_dispatch: what cdr_detach is handed for chain c. `ends` keeps
\* the end time every record of the chain had when the rows were built.
cdr_object_dispatch(log, c, chain) ==
    Append(log, [chain |-> c,
                 name |-> chain[1].name,
                 ends |-> [j \in 1..Len(chain) |-> chain[j].end],
                 rows |-> cdr_object_create_public_records(chain)])

\* enum ast_cdr_disposition, the values post_cdr compares.
DispositionValue(disposition) ==
    CASE disposition = "NOANSWER" -> 0
      [] disposition = "NULL" -> 1
      [] disposition = "FAILED" -> 2
      [] disposition = "BUSY" -> 4
      [] disposition = "ANSWERED" -> 8
      [] disposition = "CONGESTION" -> 16

\* A post_cdr without the test of the Disable flag.
PostedDisabledToo(cdr, unanswered) ==
    ~(/\ ~unanswered
      /\ DispositionValue(cdr.disposition) < DispositionValue("ANSWERED")
      /\ (cdr.channel = "" \/ cdr.dstchannel = ""))

\* post_cdr: the two tests of its loop; a row that fails one is skipped.
Posted(cdr, unanswered) ==
    /\ ~(/\ ~unanswered
          /\ DispositionValue(cdr.disposition) < DispositionValue("ANSWERED")
          /\ (cdr.channel = "" \/ cdr.dstchannel = ""))
    /\ "Disable" \notin cdr.flags

\* The traversal of be_list for one row: the calls i->be(cdr), in list order.
Backends(cdr, be_list) ==
    [n \in 1..Len(be_list) |-> [be |-> be_list[n], cdr |-> cdr]]

\* post_cdr: the backend calls made for a list of rows, in order.
RECURSIVE post_cdr(_, _, _)
post_cdr(rows, unanswered, be_list) ==
    IF rows = <<>> THEN <<>>
    ELSE (IF Posted(Head(rows), unanswered) THEN Backends(Head(rows), be_list) ELSE <<>>)
            \o post_cdr(Tail(rows), unanswered, be_list)

(* ----------------------- handle_channel_cache_message ------------------ *)
\* A new channel: cdr_object_alloc and ao2_link.
CacheNew(st, new_snapshot) ==
    [st EXCEPT !.ch = Append(st.ch, <<cdr_object_alloc(new_snapshot, 1, st.seq)>>),
               !.seq = @ + 1,
               !.by_channel = ao2_link(st.by_channel, Len(st.ch) + 1)]

\* After the Party A loop: every record rejected the update and a new record
\* is needed, which then takes the update itself.
CacheFork(st, c, old_snapshot, new_snapshot) ==
    IF st.res = 1 /\ check_new_cdr_needed(old_snapshot, new_snapshot)
    THEN process_party_a(AppendTo(st, c, 1), c, Len(st.ch[c]) + 1, new_snapshot)
    ELSE st

\* The channel is gone: every record of its chain is finalized,
CacheFinalize(st, c) ==
    [st EXCEPT !.ch[c] = [j \in 1..Len(st.ch[c]) |-> cdr_object_finalize(st.ch[c][j])]]

\* the chain is dispatched and taken out of the channel index.
CacheDispatch(st, c) ==
    [IndexLocked(st, "ao2_unlink") EXCEPT
        !.dispatched = cdr_object_dispatch(st.dispatched, c, st.ch[c]),
        !.by_channel = ao2_unlink(st.by_channel, c)]

\* "Handle Party A" from ao2_lock(cdr) to ao2_unlock(cdr).
CacheLocked(st, c, old_snapshot, new_snapshot) ==
    ao2_unlock(st,
               IF new_snapshot.name # ""
               THEN CacheFork(PartyALoop([st EXCEPT !.res = 1], c, 1, new_snapshot),
                              c, old_snapshot, new_snapshot)
               ELSE CacheDispatch(CacheFinalize(st, c), c),
               c)

\* "Handle Party A" on the chain c found for the name; c = 0 when none.
CachePartyA(st, c, old_snapshot, new_snapshot) ==
    IF c = 0 THEN st ELSE CacheLocked(ao2_lock(st, c), c, old_snapshot, new_snapshot)

\* "Handle Party B": the scan of the channel index. The callbacks take no
\* chain lock.
CachePartyB(st, old_snapshot, new_snapshot) ==
    ao2_unlock(st,
               [st EXCEPT !.ch =
                   [k \in 1..Len(st.ch) |->
                       IF k \notin Linked(st.by_channel) THEN st.ch[k]
                       ELSE IF new_snapshot.name # ""
                            THEN cdr_object_update_party_b(st.ch[k], new_snapshot)
                            ELSE cdr_object_finalize_party_b(st.ch[k], old_snapshot)]],
               0)

\* The chain the handler works on, once a new channel's chain is linked.
CacheFind(st, old_snapshot, new_snapshot) ==
    IF new_snapshot.name # "" /\ old_snapshot.name = "" THEN Len(st.ch)
    ELSE ao2_find_channel(st.ch, st.by_channel,
                          IF new_snapshot.name # "" THEN new_snapshot.name
                          ELSE old_snapshot.name)

CacheFound(st, old_snapshot, new_snapshot) ==
    CachePartyB(CachePartyA(st, CacheFind(st, old_snapshot, new_snapshot),
                            old_snapshot, new_snapshot),
                old_snapshot, new_snapshot)

\* handle_channel_cache_message, given the cached snapshot it replaces
\* (old_snapshot) and the new one; either may be absent.
handle_channel_cache_message(st, old_snapshot, new_snapshot) ==
    CacheFound(IF new_snapshot.name # "" /\ old_snapshot.name = ""
               THEN CacheNew(st, new_snapshot) ELSE st,
               old_snapshot, new_snapshot)

(* ---------------------------- handle_dial_message ---------------------- *)
\* A dial begin that installs the peer as Party A whoever the record
\* belongs to.
DialBeginTakesPeer(cdr, caller, peer) ==
    cdr_object_transition_state(
        [cdr EXCEPT !.party_a = cdr_object_swap_snapshot(cdr.party_a, peer)], "Dial")

\* single_state_process_dial_begin. `caller` and `peer` are snapshots; the
\* caller is absent for an origination.
single_state_process_dial_begin(cdr, caller, peer) ==
    cdr_object_transition_state(
        IF caller.name # "" /\ cdr.party_a.snapshot.name = caller.name
        THEN [cdr EXCEPT
                 !.party_a = cdr_object_swap_snapshot(cdr.party_a, caller),
                 !.party_b = cdr_object_swap_snapshot(cdr.party_b, peer)]
        ELSE IF cdr.party_a.snapshot.name = peer.name
        THEN [cdr EXCEPT !.party_a = cdr_object_swap_snapshot(cdr.party_a, peer)]
        ELSE cdr,
        "Dial")

\* dial_status_to_disposition
dial_status_to_disposition(dial_status) ==
    CASE dial_status = "ANSWER" -> "ANSWERED"
      [] dial_status = "BUSY" -> "BUSY"
      [] dial_status \in {"CANCEL", "NOANSWER"} -> "NOANSWER"
      [] dial_status = "CONGESTION" ->
            IF mod_cfg.congestion THEN "CONGESTION" ELSE "FAILED"
      [] OTHER -> "FAILED"

\* The end of dial_state_process_dial_end: the disposition and the state
\* that follows from it.
DialDisposed(cdr, dial_status) ==
    cdr_object_transition_state(
        [cdr EXCEPT !.disposition = dial_status_to_disposition(dial_status)],
        IF dial_status_to_disposition(dial_status) = "ANSWERED"
        THEN "DialedPending" ELSE "Finalized")

\* A dial end that does not look at the record's Party B.
DialEndForAnyPeer(cdr, caller, peer, dial_status) ==
    DialDisposed(
        [cdr EXCEPT !.party_a = cdr_object_swap_snapshot(
                                    cdr.party_a, IF caller.name # "" THEN caller ELSE peer)],
        dial_status)

\* dial_state_process_dial_end
dial_state_process_dial_end(cdr, caller, peer, dial_status) ==
    IF HasSnapshot(cdr.party_b) /\ cdr.party_b.snapshot.name # peer.name
    THEN [cdr EXCEPT !.party_a = cdr_object_swap_snapshot(
                                     cdr.party_a, IF caller.name # "" THEN caller ELSE peer)]
    ELSE DialDisposed(
             [cdr EXCEPT
                 !.party_a = cdr_object_swap_snapshot(
                                 cdr.party_a, IF caller.name # "" THEN caller ELSE peer),
                 !.party_b = IF HasSnapshot(cdr.party_b)
                             THEN cdr_object_swap_snapshot(cdr.party_b, peer)
                             ELSE cdr.party_b],
             dial_status)

\* The end of pending_state_process_dial_begin, the record being Single.
PendingDialBegin(single, c, i, caller, peer) ==
    [single EXCEPT ![c][i] = single_state_process_dial_begin(single[c][i], caller, peer)]

\* The end of dialed_pending_state_process_dial_begin, the record being
\* Finalized and a new record appended: it is the record itself that goes
\* back to Single and takes the dial begin.
DialedPendingDialBegin(st, c, i, caller, peer) ==
    [st EXCEPT !.ch[c][i] = single_state_process_dial_begin(
                                cdr_object_transition_state(st.ch[c][i], "Single"),
                                caller, peer),
               !.ret = 0]

\* cdr_object_transition_state on record i of chain c, for the tables whose
\* init hook touches the record alone.
Transition(st, c, i, fn_table) ==
    [st EXCEPT !.ch[c][i] = cdr_object_transition_state(st.ch[c][i], fn_table)]

\* single_state_process_dial_begin takes the branch of the caller and the
\* dial has no peer snapshot: cdr_object_swap_snapshot hands the null
\* pointer to cdr_object_update_cid, which reads through it.
NullPeerRead(cdr, caller, peer) ==
    caller.name # "" /\ cdr.party_a.snapshot.name = caller.name /\ peer.name = ""

\* A dial begin that never reads the peer.
PeerNeverRead(cdr, caller, peer) == FALSE

\* fn_table->process_dial_begin on record i of chain c, for a dial whose
\* snapshots are there; ret is 2 when the record's table has no such handler.
DialBeginHandled(st, c, i, caller, peer) ==
    CASE st.ch[c][i].fn_table = "Single" ->
           [st EXCEPT !.ch[c][i] = single_state_process_dial_begin(st.ch[c][i], caller, peer),
                      !.ret = 0]
      [] st.ch[c][i].fn_table = "Dial" ->
           \* dial_state_process_dial_begin
           [st EXCEPT !.ret = 1]
      [] st.ch[c][i].fn_table = "DialedPending" ->
           DialedPendingDialBegin(AppendTo(Transition(st, c, i, "Finalized"), c, i),
                                  c, i, caller, peer)
      [] st.ch[c][i].fn_table = "Pending" ->
           [IndexLocked(st, "ao2_find") EXCEPT
               !.ch = PendingDialBegin(PendingToSingle(st.ch, st.by_channel, c, i),
                                       c, i, caller, peer),
               !.ret = 0]
      [] OTHER -> [st EXCEPT !.ret = 2]

\* fn_table->process_dial_begin on record i of chain c. The Single handler,
\* which the DialedPending and Pending handlers end in, reads the peer.
process_dial_begin(st, c, i, caller, peer) ==
    IF /\ st.ch[c][i].fn_table \in {"Single", "DialedPending", "Pending"}
       /\ NullPeerRead(st.ch[c][i], caller, peer)
    THEN [st EXCEPT !.crash = TRUE, !.ret = 0]
    ELSE DialBeginHandled(st, c, i, caller, peer)

\* The dial-begin loop of handle_dial_message over chain c from record i on;
\* the loop also visits the records appended while it runs.
RECURSIVE DialBeginLoop(_, _, _, _, _)
DialBeginLoop(st, c, i, caller, peer) ==
    IF i > Len(st.ch[c]) \/ st.crash THEN st
    ELSE DialBeginLoop(AndRet(process_dial_begin(st, c, i, caller, peer)),
                       c, i + 1, caller, peer)

\* The dial-end loop of handle_dial_message over one chain. The Single and
\* Pending tables carry base_process_dial_end, which changes nothing.
DialEndLoop(chain, caller, peer, dial_status) ==
    [j \in 1..Len(chain) |->
        IF chain[j].fn_table = "Dial"
        THEN dial_state_process_dial_end(chain[j], caller, peer, dial_status)
        ELSE chain[j]]

\* dial_state_process_dial_end on a record that has a Party B compares its
\* name with the peer's: with no peer snapshot the read is of a null pointer.
DialEndNullPeerRead(chain, peer) ==
    /\ peer.name = ""
    /\ \E j \in 1..Len(chain) :
          chain[j].fn_table = "Dial" /\ HasSnapshot(chain[j].party_b)

\* "Figure out who is running this show", given the chains found for the
\* caller and the peer (0 when none): the chain the message is applied to
\* and the snapshots handed to the handlers, which are the ones stored in
\* the heads of the two chains.
DialPartiesOf(ch, cdr_caller, cdr_peer) ==
    IF cdr_caller # 0 /\ cdr_peer # 0
    THEN IF PickedName(ch[cdr_caller][1].party_a, ch[cdr_peer][1].party_a)
                = ch[cdr_caller][1].party_a.snapshot.name
         THEN [cdr |-> cdr_caller,
               party_a |-> ch[cdr_caller][1].party_a.snapshot,
               party_b |-> ch[cdr_peer][1].party_a.snapshot]
         ELSE [cdr |-> cdr_peer,
               party_a |-> ch[cdr_peer][1].party_a.snapshot,
               party_b |-> ch[cdr_caller][1].party_a.snapshot]
    ELSE IF cdr_caller # 0
    THEN [cdr |-> cdr_caller,
          party_a |-> ch[cdr_caller][1].party_a.snapshot,
          party_b |-> NullSnapshot]
    ELSE IF cdr_peer # 0
    THEN [cdr |-> cdr_peer,
          party_a |-> NullSnapshot,
          party_b |-> ch[cdr_peer][1].party_a.snapshot]
    ELSE [cdr |-> 0, party_a |-> NullSnapshot, party_b |-> NullSnapshot]

DialParties(ch, index, caller_name, peer_name) ==
    DialPartiesOf(ch,
                  IF caller_name = "" THEN 0 ELSE ao2_find_channel(ch, index, caller_name),
                  IF peer_name = "" THEN 0 ELSE ao2_find_channel(ch, index, peer_name))

\* A router that makes no record for a dial begin no record handled.
DialNewNever(st, c, caller, peer) == st

\* "If no CDR handled a dial begin message, make a new one"
DialNew(st, c, caller, peer) ==
    IF st.crash \/ st.res # 1 \/ st.nomem THEN st
    ELSE IF NullPeerRead(st.ch[c][1], caller, peer) THEN [st EXCEPT !.crash = TRUE]
    ELSE [AppendTo(st, c, 1) EXCEPT
             !.ch[c][Len(st.ch[c]) + 1] =
                 single_state_process_dial_begin(@, caller, peer)]

\* A dial handler that unlocks on every path.
DialAlwaysUnlocks(locked, st, c, dial_status) == ao2_unlock(locked, st, c)

\* The two ways out of handle_dial_message once the chain is locked: the
\* `return` taken when cdr_object_create_and_append finds no memory for the
\* record of a dial begin no record handled, which leaves the chain locked,
\* and the ao2_unlock(cdr) at the end.
DialReturn(locked, st, c, dial_status) ==
    IF ~st.crash /\ st.nomem /\ st.res = 1 /\ dial_status = ""
    THEN st
    ELSE ao2_unlock(locked, st, c)

\* handle_dial_message from ao2_lock(cdr) to ao2_unlock(cdr). dial_status
\* is "" for a dial begin.
DialLocked(st, who, dial_status) ==
    DialReturn(st,
               IF dial_status # "" /\ DialEndNullPeerRead(st.ch[who.cdr], who.party_b)
               THEN [st EXCEPT !.crash = TRUE]
               ELSE IF dial_status # ""
               THEN [st EXCEPT !.ch[who.cdr] =
                        DialEndLoop(st.ch[who.cdr], who.party_a, who.party_b, dial_status)]
               ELSE DialNew(DialBeginLoop([st EXCEPT !.res = 1], who.cdr, 1,
                                          who.party_a, who.party_b),
                            who.cdr, who.party_a, who.party_b),
               who.cdr, dial_status)

DialFound(st, who, dial_status) ==
    IF who.cdr = 0 THEN st ELSE DialLocked(ao2_lock(st, who.cdr), who, dial_status)

handle_dial_message(st, caller_name, peer_name, dial_status) ==
    DialFound(st, DialParties(st.ch, st.by_channel, caller_name, peer_name), dial_status)

(* ----------------------- handle_bridge_enter_message ------------------- *)
\* A record the bridge-enter scans look at: in the Bridged state, in the
\* bridge the entering record has just been given.
InBridge(cand_cdr, bridge_id) ==
    cand_cdr.fn_table = "Bridged" /\ cand_cdr.bridge = bridge_id

\* single_state_bridge_enter_comparison of record (c, i) with the candidate
\* record (k, j).
single_state_bridge_enter_comparison(st, c, i, k, j) ==
    IF PickedName(st.ch[c][i].party_a, st.ch[k][j].party_a)
          = st.ch[c][i].party_a.snapshot.name
    THEN [st EXCEPT
             !.ch[c][i].party_b = cdr_object_snapshot_copy(@, st.ch[k][j].party_a),
             !.ch[k][j] = IF HasSnapshot(st.ch[k][j].party_b) THEN @
                          ELSE cdr_object_finalize(@),
             !.ret = 0]
    ELSE IF ~HasSnapshot(st.ch[k][j].party_b) THEN [st EXCEPT !.ret = 1]
    ELSE IF PickedName(st.ch[c][i].party_a, st.ch[k][j].party_b)
               = st.ch[c][i].party_a.snapshot.name
    THEN [st EXCEPT
             !.ch[c][i].party_b = cdr_object_snapshot_copy(@, st.ch[k][j].party_b),
             !.ret = 0]
    ELSE [st EXCEPT !.ret = 1]

\* The inner for loop of single_state_process_bridge_enter over the records
\* of candidate chain k from j on: it stops at the first record that gives
\* a Party B.
RECURSIVE SingleScanChain(_, _, _, _, _)
RECURSIVE SingleScanNext(_, _, _, _, _)
SingleScanChain(st, c, i, k, j) ==
    IF j > Len(st.ch[k]) THEN [st EXCEPT !.ret = 1]
    ELSE IF ~InBridge(st.ch[k][j], st.ch[c][i].bridge)
    THEN SingleScanChain(st, c, i, k, j + 1)
    ELSE SingleScanNext(single_state_bridge_enter_comparison(st, c, i, k, j), c, i, k, j)

SingleScanNext(st, c, i, k, j) ==
    IF st.ret = 0 THEN st ELSE SingleScanChain(st, c, i, k, j + 1)

\* `success = 0` once a chain has given a Party B, and the ao2_unlock of
\* the candidate chain k that was locked in engine state `locked`.
Success(locked, st, k) ==
    ao2_unlock(locked, [st EXCEPT !.success = IF st.ret = 0 THEN 0 ELSE @], k)

\* The body of the scans' while loop on candidate chain k, which is locked.
SingleCandidate(st, c, i, k) == Success(st, SingleScanChain(st, c, i, k, 1), k)

\* The while loop over the chains the bridge index returned: it goes on to
\* the next chain whether or not a Party B was found.
RECURSIVE SingleScan(_, _, _, _, _)
SingleScan(st, c, i, it_cdrs, n) ==
    IF n > Len(it_cdrs) THEN st
    ELSE SingleScan(SingleCandidate(ao2_lock(st, it_cdrs[n]), c, i, it_cdrs[n]),
                    c, i, it_cdrs, n + 1)

\* "We always transition to bridge state": the scan's success is returned.
Bridged(st, c, i) ==
    [st EXCEPT !.ch[c][i] = cdr_object_transition_state(st.ch[c][i], "Bridged"),
               !.ret = st.success]

\* single_state_process_bridge_enter on record (c, i), the record carrying
\* the bridge id.
SingleEnter(st, c, i, bridge_id) ==
    Bridged(SingleScan(st, c, i, BridgeLookup(st.ch, st.by_bridge, bridge_id), 1), c, i)

single_state_process_bridge_enter(st, c, i, bridge_id) ==
    SingleEnter([IndexLocked(st, "ao2_callback") EXCEPT
                    !.ch[c][i].bridge = bridge_id, !.success = 1],
                c, i, bridge_id)

\* The inner for loop of dial_state_process_bridge_enter. The record's
\* Party B name is read without a test: with no Party B the read is of a
\* null pointer, reported as crash.
RECURSIVE DialScanChain(_, _, _, _, _)
DialScanChain(st, c, i, k, j) ==
    IF j > Len(st.ch[k]) THEN [st EXCEPT !.ret = 1]
    ELSE IF ~InBridge(st.ch[k][j], st.ch[c][i].bridge) THEN DialScanChain(st, c, i, k, j + 1)
    ELSE IF ~HasSnapshot(st.ch[c][i].party_b) THEN [st EXCEPT !.ret = 1, !.crash = TRUE]
    ELSE IF st.ch[c][i].party_b.snapshot.name # st.ch[k][j].party_a.snapshot.name
    THEN DialScanChain(st, c, i, k, j + 1)
    ELSE [st EXCEPT
             !.ch[c][i].party_b = cdr_object_snapshot_copy(@, st.ch[k][j].party_a),
             !.ch[k][j] = IF HasSnapshot(st.ch[k][j].party_b) THEN @
                          ELSE cdr_object_finalize(@),
             !.ret = 0]

DialCandidate(st, c, i, k) == Success(st, DialScanChain(st, c, i, k, 1), k)

RECURSIVE DialScan(_, _, _, _, _)
DialScan(st, c, i, it_cdrs, n) ==
    IF n > Len(it_cdrs) \/ st.crash THEN st
    ELSE DialScan(DialCandidate(ao2_lock(st, it_cdrs[n]), c, i, it_cdrs[n]),
                  c, i, it_cdrs, n + 1)

\* dial_state_process_bridge_enter on record (c, i), the record carrying the
\* bridge id.
DialEnter(st, c, i, bridge_id) ==
    Bridged(DialScan(st, c, i, BridgeLookup(st.ch, st.by_bridge, bridge_id), 1), c, i)

dial_state_process_bridge_enter(st, c, i, bridge_id) ==
    DialEnter([IndexLocked(st, "ao2_callback") EXCEPT
                  !.ch[c][i].bridge = bridge_id, !.success = 1],
              c, i, bridge_id)

\* The start of pending_state_process_bridge_enter.
PendingEnter(st, c, i) ==
    [IndexLocked(st, "ao2_find") EXCEPT !.ch = PendingToSingle(st.ch, st.by_channel, c, i)]

\* fn_table->process_bridge_enter on record (c, i); ret is 2 when the
\* record's table has no such handler.
process_bridge_enter(st, c, i, bridge_id) ==
    CASE st.ch[c][i].fn_table = "Single" ->
           single_state_process_bridge_enter(st, c, i, bridge_id)
      [] st.ch[c][i].fn_table = "Dial" ->
           dial_state_process_bridge_enter(st, c, i, bridge_id)
      [] st.ch[c][i].fn_table = "DialedPending" ->
           \* dialed_pending_state_process_bridge_enter
           dial_state_process_bridge_enter(Transition(st, c, i, "Dial"), c, i, bridge_id)
      [] st.ch[c][i].fn_table = "Pending" ->
           single_state_process_bridge_enter(PendingEnter(st, c, i), c, i, bridge_id)
      [] OTHER -> [st EXCEPT !.ret = 2]

\* `res &= ret; if (!res && !handled_cdr) handled_cdr = it_cdr`
Handled(st, i) ==
    [st EXCEPT !.res = IF st.ret = 0 THEN 0 ELSE @,
               !.handled_cdr = IF st.ret = 0 /\ @ = 0 THEN i ELSE @]

\* The record loop of handle_bridge_enter_message over chain c from i on:
\* every record takes the snapshot as a Party A update and then, if its
\* table (as it is by then) has the handler, the bridge enter.
RECURSIVE BridgeEnterLoop(_, _, _, _, _)
BridgeEnterLoop(st, c, i, channel, bridge_id) ==
    IF i > Len(st.ch[c]) \/ st.crash THEN st
    ELSE BridgeEnterLoop(
             Handled(process_bridge_enter(process_party_a(st, c, i, channel),
                                          c, i, bridge_id), i),
             c, i + 1, channel, bridge_id)

\* add_candidate_for_bridge over the records of chain k from j on. A
\* candidate keeps the place of its home record and a copy of the party.
RECURSIVE add_candidate_for_bridge(_, _, _, _, _, _)
add_candidate_for_bridge(bridge_id, candidates, ch, k, j, party_a) ==
    IF j > Len(ch[k]) THEN candidates
    ELSE IF ~InBridge(ch[k][j], bridge_id)
            \/ ~HasSnapshot(IF party_a THEN ch[k][j].party_a ELSE ch[k][j].party_b)
            \/ \E n \in 1..Len(candidates) :
                  candidates[n].candidate.snapshot.name =
                      (IF party_a THEN ch[k][j].party_a ELSE ch[k][j].party_b).snapshot.name
    THEN add_candidate_for_bridge(bridge_id, candidates, ch, k, j + 1, party_a)
    ELSE add_candidate_for_bridge(
             bridge_id,
             Append(candidates,
                    [chain |-> k, record |-> j,
                     candidate |-> cdr_object_snapshot_copy(
                                       NullParty,
                                       IF party_a THEN ch[k][j].party_a
                                       ELSE ch[k][j].party_b)]),
             ch, k, j + 1, party_a)

\* One pass of create_candidates_for_bridge over the chains the bridge index
\* returned.
RECURSIVE CandidatesPass(_, _, _, _, _, _)
CandidatesPass(bridge_id, candidates, ch, it_cdrs, n, party_a) ==
    IF n > Len(it_cdrs) THEN candidates
    ELSE CandidatesPass(bridge_id,
                        add_candidate_for_bridge(bridge_id, candidates, ch, it_cdrs[n], 1,
                                                 party_a),
                        ch, it_cdrs, n + 1, party_a)

\* create_candidates_for_bridge: the Party A pass, then the Party B pass.
create_candidates_for_bridge(ch, by_bridge, bridge_id) ==
    CandidatesPass(bridge_id,
                   CandidatesPass(bridge_id, <<>>, ch,
                                  BridgeLookup(ch, by_bridge, bridge_id), 1, TRUE),
                   ch, BridgeLookup(ch, by_bridge, bridge_id), 1, FALSE)

\* What bridge_candidate_add_to_cdr and the new-chain path make of a fresh
\* record: the Party B, the answer time, the bridge, the Bridged state.
Paired(new_cdr, party_b, bridge) ==
    cdr_object_transition_state(
        [cdr_object_check_party_a_answer(
             [new_cdr EXCEPT !.party_b = cdr_object_snapshot_copy(new_cdr.party_b, party_b)])
         EXCEPT !.bridge = bridge],
        "Bridged")

\* bridge_candidate_add_to_cdr on record (k, j): a record is appended to
\* chain k with the given Party B, in the bridge of record (k, j), Bridged.
\* The chain's lock is not taken.
bridge_candidate_add_to_cdr(st, k, j, party_b) ==
    [AppendTo(st, k, j) EXCEPT
        !.ch[k][Len(st.ch[k]) + 1] = Paired(@, party_b, st.ch[k][j].bridge)]

\* The chain bridge_candidate_process allocates for a Party B that has none.
NewPartyBChain(bcand, cdr, seq) ==
    <<Paired([cdr_object_alloc(bcand.candidate.snapshot, 1, seq) EXCEPT
                 !.party_a = cdr_object_snapshot_copy(@, bcand.candidate)],
             cdr.party_a, cdr.bridge)>>

\* bridge_candidate_process for candidate bcand and the entering record
\* (c, i).
bridge_candidate_process(st, bcand, c, i) ==
    IF st.ch[c][i].party_a.snapshot.name = bcand.candidate.snapshot.name
       \/ (HasSnapshot(st.ch[c][i].party_b)
           /\ st.ch[c][i].party_b.snapshot.name = bcand.candidate.snapshot.name)
    THEN st
    ELSE IF PickedName(st.ch[c][i].party_a, bcand.candidate)
               = st.ch[c][i].party_a.snapshot.name
    THEN bridge_candidate_add_to_cdr(st, c, i, bcand.candidate)
    ELSE IF st.ch[bcand.chain][bcand.record].party_a.snapshot.name
               = bcand.candidate.snapshot.name
    THEN IF HasSnapshot(st.ch[bcand.chain][bcand.record].party_b)
            /\ st.ch[bcand.chain][bcand.record].party_b.snapshot.name
                  # st.ch[c][i].party_a.snapshot.name
         THEN bridge_candidate_add_to_cdr(st, bcand.chain, bcand.record,
                                          st.ch[c][i].party_a)
         ELSE [st EXCEPT
                  !.ch[bcand.chain][bcand.record].party_b =
                      cdr_object_snapshot_copy(@, st.ch[c][i].party_a),
                  !.ch[bcand.chain][bcand.record].end = 0]
    ELSE IF ao2_find_channel(st.ch, st.by_channel, bcand.candidate.snapshot.name) = 0
    THEN [IndexLocked(IndexLocked(st, "ao2_find"), "ao2_link") EXCEPT
             !.ch = Append(st.ch, NewPartyBChain(bcand, st.ch[c][i], st.seq)),
             !.seq = @ + 1,
             !.by_channel = ao2_link(st.by_channel, Len(st.ch) + 1),
             !.by_bridge = ao2_link(st.by_bridge, Len(st.ch) + 1)]
    ELSE [bridge_candidate_add_to_cdr(
              IndexLocked(IndexLocked(st, "ao2_find"), "ao2_link"),
              ao2_find_channel(st.ch, st.by_channel, bcand.candidate.snapshot.name), 1,
              st.ch[c][i].party_a)
          EXCEPT !.by_bridge =
              ao2_link(st.by_bridge,
                       ao2_find_channel(st.ch, st.by_channel,
                                        bcand.candidate.snapshot.name))]

\* handle_bridge_pairings: the candidates are processed one after another.
RECURSIVE PairingsLoop(_, _, _, _, _)
PairingsLoop(st, candidates, n, c, i) ==
    IF n > Len(candidates) THEN st
    ELSE PairingsLoop(bridge_candidate_process(st, candidates[n], c, i),
                      candidates, n + 1, c, i)

\* A bridge enter that makes no pairings.
NoBridgePairings(st, c, i, bridge_id) == st

handle_bridge_pairings(st, c, i, bridge_id) ==
    PairingsLoop(IndexLocked(st, "ao2_callback"),
                 create_candidates_for_bridge(st.ch, st.by_bridge, bridge_id), 1, c, i)

\* "We didn't win on any - end this CDR"
EnterEnd(st, c) ==
    IF st.res = 1 THEN [st EXCEPT !.ch[c][1] = cdr_object_finalize(st.ch[c][1])] ELSE st

\* The pairings are made for the first record that handled the message or,
\* if none did, for the record the head's `last` designates. No lock is
\* taken or released while they are made.
EnterPair(st, c, bridge_id) ==
    ao2_unlock(st,
               handle_bridge_pairings(
                   st, c, IF st.handled_cdr = 0 THEN st.ch[c][1].last ELSE st.handled_cdr,
                   bridge_id),
               0)

\* ao2_link(active_cdrs_by_bridge, cdr) and ao2_unlock(cdr).
EnterLink(st, c) ==
    ao2_unlock(st, [IndexLocked(st, "ao2_link") EXCEPT !.by_bridge = ao2_link(st.by_bridge, c)],
               c)

\* handle_bridge_enter_message from ao2_lock(cdr) on.
EnterLocked(st, c, bridge_id, channel) ==
    EnterLink(
        EnterPair(
            EnterEnd(BridgeEnterLoop([st EXCEPT !.res = 1, !.handled_cdr = 0],
                                     c, 1, channel, bridge_id), c),
            c, bridge_id),
        c)

\* handle_bridge_enter_message on the chain c found for the channel.
EnterFound(st, c, bridge_id, channel) ==
    IF c = 0 THEN st ELSE EnterLocked(ao2_lock(st, c), c, bridge_id, channel)

\* handle_bridge_enter_message for the channel's snapshot and a bridge id.
handle_bridge_enter_message(st, bridge_id, channel) ==
    EnterFound(st, ao2_find_channel(st.ch, st.by_channel, channel.name), bridge_id, channel)

(* ----------------------- handle_bridge_leave_message ------------------- *)
\* A bridge leave that only a record with a Party B takes.
BridgeLeaveWithPartyB(cdr, bridge_id, channel_name) ==
    IF cdr.bridge = bridge_id /\ HasSnapshot(cdr.party_b) THEN 0 ELSE 1

\* bridge_state_process_bridge_leave: the return value.
bridge_state_process_bridge_leave(cdr, bridge_id, channel_name) ==
    IF cdr.bridge # bridge_id THEN 1
    ELSE IF cdr.party_a.snapshot.name # channel_name
            /\ HasSnapshot(cdr.party_b)
            /\ cdr.party_b.snapshot.name # channel_name THEN 1
    ELSE 0

\* Whether the Party A loop of handle_bridge_leave_message takes record cdr
\* out of the bridge. Only the Bridged table has a handler that returns 0.
LeavesBridge(cdr, bridge_id, channel_name) ==
    cdr.fn_table = "Bridged"
    /\ bridge_state_process_bridge_leave(cdr, bridge_id, channel_name) = 0

\* The Party A loop over one chain.
BridgeLeaveLoop(chain, bridge_id, channel_name) ==
    [j \in 1..Len(chain) |->
        IF LeavesBridge(chain[j], bridge_id, channel_name)
        THEN [cdr_object_transition_state(chain[j], "Finalized") EXCEPT !.bridge = ""]
        ELSE chain[j]]

\* cdr_object_party_b_left_bridge_cb on one chain.
cdr_object_party_b_left_bridge_cb(chain, bridge_id, channel_name) ==
    IF chain[1].bridge # bridge_id THEN chain
    ELSE [j \in 1..Len(chain) |->
            IF chain[j].fn_table = "Bridged"
               /\ HasSnapshot(chain[j].party_b)
               /\ chain[j].party_b.snapshot.name = channel_name
               /\ bridge_state_process_bridge_leave(chain[j], bridge_id, channel_name) = 0
            THEN cdr_object_finalize(cdr_object_transition_state(chain[j], "Finalized"))
            ELSE chain[j]]

\* The Party A part: the loop, ao2_unlink, and the Pending record.
LeaveLoop(st, c, bridge_id, channel_name) ==
    [IndexLocked(st, "ao2_unlink") EXCEPT
        !.ch[c] = BridgeLeaveLoop(st.ch[c], bridge_id, channel_name),
        !.by_bridge = ao2_unlink(st.by_bridge, c)]

LeavePending(st, c) ==
    [IndexLocked(st, "ao2_find") EXCEPT
        !.ch = pending_state_init_function(st.ch, st.by_channel, c, Len(st.ch[c]))]

\* The Party A part from ao2_lock(cdr) to the second ao2_unlock(cdr).
LeaveLocked(st, c, bridge_id, channel_name) ==
    ao2_unlock(st,
               LeavePending(AppendTo(LeaveLoop(st, c, bridge_id, channel_name), c, 1), c),
               c)

\* The Party B part: the callback over the bridge index. It takes no chain
\* lock.
LeavePartyB(st, bridge_id, channel_name) ==
    ao2_unlock(st,
               [st EXCEPT !.ch =
                   [k \in 1..Len(st.ch) |->
                       IF k \in Linked(st.by_bridge)
                       THEN cdr_object_party_b_left_bridge_cb(st.ch[k], bridge_id,
                                                              channel_name)
                       ELSE st.ch[k]]],
               0)

\* A handler that goes on to the Pending record whether or not a record left
\* the bridge.
LeaveFoundAlways(st, c, bridge_id, channel_name) ==
    IF c = 0 THEN st
    ELSE LeavePartyB(LeaveLocked(ao2_lock(st, c), c, bridge_id, channel_name),
                     bridge_id, channel_name)

\* handle_bridge_leave_message on the chain c found for the channel.
LeaveFound(st, c, bridge_id, channel_name) ==
    IF c = 0 THEN st
    ELSE IF ~\E j \in 1..Len(st.ch[c]) : LeavesBridge(st.ch[c][j], bridge_id, channel_name)
    THEN st
    ELSE LeavePartyB(LeaveLocked(ao2_lock(st, c), c, bridge_id, channel_name),
                     bridge_id, channel_name)

handle_bridge_leave_message(st, bridge_id, channel) ==
    LeaveFound(st, ao2_find_channel(st.ch, st.by_channel, channel.name), bridge_id,
               channel.name)

(* ------------------------------- shutdown ------------------------------ *)
\* cdr_object_dispatch_all_cb: every record of the chain is moved to the
\* Finalized state,
DispatchAllFinalize(st, c) ==
    [st EXCEPT !.ch[c] = [j \in 1..Len(st.ch[c]) |->
                             cdr_object_transition_state(st.ch[c][j], "Finalized")]]

\* and the chain is dispatched.
DispatchAllDispatch(st, c) ==
    [st EXCEPT !.dispatched = cdr_object_dispatch(st.dispatched, c, st.ch[c])]

\* The callback takes no chain lock.
cdr_object_dispatch_all_cb(st, c) ==
    ao2_unlock(st, DispatchAllDispatch(DispatchAllFinalize(st, c), c), 0)

\* The ao2_callback of cdr_engine_shutdown over the channel index, from link
\* n on.
RECURSIVE DispatchAll(_, _)
DispatchAll(st, n) ==
    IF n > Len(st.by_channel) THEN st
    ELSE DispatchAll(cdr_object_dispatch_all_cb(st, st.by_channel[n]), n + 1)

cdr_engine_shutdown(st) == DispatchAll(st, 1)

(* --------------------------------- API --------------------------------- *)
\* What ast_cdr_fork makes of the record it appended: the state of cdr_obj,
\* the bridge and the flags of the head, the Party B and the times of
\* cdr_obj, and the times the options ask for.
Forked(new_cdr, cdr, cdr_obj, options) ==
    [new_cdr EXCEPT
        !.fn_table = cdr_obj.fn_table,
        !.bridge = cdr.bridge,
        !.flags = cdr.flags,
        !.party_b = IF ~HasSnapshot(cdr_obj.party_b) THEN @
                    ELSE [@ EXCEPT
                             !.snapshot = cdr_obj.party_b.snapshot,
                             !.userfield = cdr_obj.party_b.userfield,
                             !.flags = cdr_obj.party_b.flags,
                             !.variables =
                                 IF "KeepVars" \in options
                                 THEN copy_variables(@, cdr_obj.party_b.variables)
                                 ELSE @],
        !.party_a.variables = IF "KeepVars" \in options THEN @ ELSE {},
        !.start = IF "Reset" \in options THEN now ELSE cdr_obj.start,
        !.answer = IF "Reset" \in options THEN now
                   ELSE IF "SetAnswer" \in options /\ new_cdr.party_a.snapshot.up THEN now
                   ELSE cdr_obj.answer]

\* The Finalize loop of ast_cdr_fork over the records before the new one.
ForkFinalize(chain, options) ==
    IF "Finalize" \notin options THEN chain
    ELSE [j \in 1..Len(chain) |->
            IF j = Len(chain) \/ chain[j].fn_table = "Finalized" THEN chain[j]
            ELSE cdr_object_transition_state(cdr_object_finalize(chain[j]), "Finalized")]

\* ast_cdr_fork after the append.
ForkFill(appended, obj_at, options) ==
    ForkFinalize([appended EXCEPT ![Len(appended)] =
                     Forked(@, appended[1], appended[obj_at], options)],
                 options)

\* ast_cdr_fork from the append on, under the chain lock: obj_at is the
\* record `last` designated when the call read it, seq the sequence number
\* cdr_object_alloc fetched.
ForkAppend(chain, obj_at, seq, options) ==
    ForkFill(AppendAfter(chain, 1, obj_at, seq), obj_at, options)

\* ast_cdr_fork on the chain c that ao2_find returned: nothing changes when
\* the call returns -1.
ast_cdr_fork(st, c, options) ==
    IF st.ch[c][st.ch[c][1].last].fn_table = "Finalized" THEN st
    ELSE ao2_unlock(ao2_lock(st, c),
                    [ao2_lock(st, c) EXCEPT
                        !.ch[c] = ForkAppend(st.ch[c], st.ch[c][1].last, st.seq, options),
                        !.seq = @ + 1],
                    c)

\* ast_cdr_reset on the chain ao2_find returned.
ast_cdr_reset(chain, options) ==
    [j \in 1..Len(chain) |->
        cdr_object_check_party_a_answer(
            [chain[j] EXCEPT
                !.party_a.variables = IF "KeepVars" \in options THEN @ ELSE {},
                !.party_b.variables =
                    IF "KeepVars" \notin options /\ HasSnapshot(chain[1].party_b)
                    THEN {} ELSE @,
                !.start = now, !.end = 0, !.answer = 0])]

(* --------------------------- ast_cdr_setuserfield ---------------------- *)
\* cdr_object_update_party_b_userfield_cb on one chain.
cdr_object_update_party_b_userfield_cb(chain, channel_name, userfield) ==
    [j \in 1..Len(chain) |->
        IF chain[j].fn_table # "Finalized"
           /\ HasSnapshot(chain[j].party_b)
           /\ chain[j].party_b.snapshot.name = channel_name
        THEN [chain[j] EXCEPT !.party_b.userfield = userfield]
        ELSE chain[j]]

\* "Handle Party A": the loop over the chain c found, under its lock.
UserfieldPartyA(st, c, userfield) ==
    IF c = 0 THEN st
    ELSE ao2_unlock(ao2_lock(st, c),
                    [ao2_lock(st, c) EXCEPT !.ch[c] =
                        [j \in 1..Len(st.ch[c]) |->
                            IF st.ch[c][j].fn_table = "Finalized" THEN st.ch[c][j]
                            ELSE [st.ch[c][j] EXCEPT !.party_a.userfield = userfield]]],
                    c)

\* "Handle Party B": the callback over the channel index. It takes no chain
\* lock.
UserfieldPartyB(st, channel_name, userfield) ==
    ao2_unlock(st,
               [st EXCEPT !.ch =
                   [k \in 1..Len(st.ch) |->
                       IF k \in Linked(st.by_channel)
                       THEN cdr_object_update_party_b_userfield_cb(st.ch[k], channel_name,
                                                                   userfield)
                       ELSE st.ch[k]]],
               0)

\* The userfield is a string that fits the buffer of AST_MAX_USER_FIELD bytes.
ast_cdr_setuserfield(st, channel_name, userfield) ==
    UserfieldPartyB(UserfieldPartyA(st, ao2_find_channel(st.ch, st.by_channel, channel_name),
                                    userfield),
                    channel_name, userfield)

\* cdr_readonly_vars: the properties cdr_object_format_property is asked for.
ReadonlyVars == 20

\* `total` of ast_cdr_serialize_variables from record i on. A property whose
\* formatted value is empty is counted all the same.
RECURSIVE SerializedEntries(_, _)
SerializedEntries(chain, i) ==
    IF i > Len(chain) THEN 0
    ELSE Cardinality(chain[i].party_a.variables) + ReadonlyVars
            + SerializedEntries(chain, i + 1)

\* ast_cdr_serialize_variables on the chain c found for the channel: the
\* chain is locked, the records are read into the buffer, and the function
\* returns the number of entries without an ao2_unlock. ret is that number:
\* the variables of Party A and the read-only properties of every record.
SerializeFound(st, c) ==
    IF c = 0 THEN [st EXCEPT !.ret = 1]
    ELSE [ao2_lock(st, c) EXCEPT !.ret = SerializedEntries(st.ch[c], 1)]

ast_cdr_serialize_variables(st, channel_name) ==
    SerializeFound(st, ao2_find_channel(st.ch, st.by_channel, channel_name))

(* ------------------------------ environment ---------------------------- *)
Event(type, channel, peer, bridge) ==
    [type |-> type, channel |-> channel, peer |-> peer, bridge |-> bridge]

Spend(kind) ==
    [budget EXCEPT !.events = @ + 1, ![kind] = @ + 1]

\* A step that wrote under the locks it needed and took no index lock under
\* a chain lock.
Clean == [unlocked |-> {}, nested |-> {}, held |-> <<>>]

Idle == [pc |-> "idle", chain |-> 0, cdr_obj |-> 0, sequence |-> 0, options |-> {}]

Threads == 1..MaxThreads

\* No function is called on its own.
NoCall == [fn |-> "", done |-> TRUE]

\* A publisher thread that is in no handler; chain is the chain whose lock
\* the thread holds.
Returned == [chain |-> 0, channel |-> "", bridge |-> ""]

\* The router thread runs one handler at a time; a handler that takes a chain
\* lock waits while the channel thread holds it.
CanDeliver ==
    /\ running /\ ~crashed /\ api_thread = Idle /\ budget.events < bus.events
    /\ \A t \in Threads : router_threads[t] = Returned

CanSpend(kind) == CanDeliver /\ budget[kind] < bus[kind]

\* The bus announces channels under fresh names, in the order A, B, C.
Before(a, b) ==
    \/ a = "A" /\ b \in {"B", "C"}
    \/ a = "B" /\ b = "C"

MayCreate(c) ==
    c \in bus.channels /\ c \notin created /\ \A d \in Channels : Before(d, c) => d \in created

\* The engine state a handler leaves. A handler that read through a null
\* pointer leaves nothing: the process is gone.
\* The chain locks the thread of st owns when its call returns.
StillOwned(st) ==
    {[chain |-> st.held[n], thread |-> st.thread] : n \in 1..Len(st.held)}

Deliver(st) ==
    /\ crashed' = st.crash
    /\ chains' = IF st.crash THEN chains ELSE st.ch
    /\ active_cdrs_by_channel' = IF st.crash THEN active_cdrs_by_channel ELSE st.by_channel
    /\ active_cdrs_by_bridge' = IF st.crash THEN active_cdrs_by_bridge ELSE st.by_bridge
    /\ global_cdr_sequence' = IF st.crash THEN global_cdr_sequence ELSE st.seq
    /\ dispatched' = IF st.crash THEN dispatched ELSE st.dispatched
    /\ lock_audit' = [unlocked |-> st.unlocked, nested |-> st.nested, held |-> st.held]
    /\ ~st.blocked
    /\ leaked' = IF st.crash THEN leaked ELSE leaked \cup StillOwned(st)

\* Every step takes one unit of time and records what it was; the engine
\* runs until the step is cdr_engine_shutdown.
Step(type, channel, peer, bridge) ==
    /\ last_event' = Event(type, channel, peer, bridge)
    /\ now' = now + 1
    /\ running' = (type # "shutdown")
    /\ UNCHANGED <<mod_cfg, bus, call>>

\* A step of the router's own thread.
Serial(type, channel, peer, bridge) ==
    /\ Step(type, channel, peer, bridge)
    /\ UNCHANGED router_threads

\* The first snapshot of a channel.
NewSnapshot(c, dialed) ==
    [NullSnapshot EXCEPT !.name = c, !.outgoing = dialed, !.creationtime = [tv_sec |-> now, tv_usec |-> 0]]

\* ChannelCacheUpdate with no old snapshot: the channel is new.
ChannelCreated(c, dialed) ==
    /\ CanDeliver
    /\ MayCreate(c)
    /\ Deliver(handle_channel_cache_message(Engine, NullSnapshot, NewSnapshot(c, dialed)))
    /\ cache' = [cache EXCEPT ![c] = NewSnapshot(c, dialed)]
    /\ created' = created \cup {c}
    /\ budget' = [budget EXCEPT !.events = @ + 1]
    /\ Serial("create", c, "", "")
    /\ UNCHANGED <<in_bridge, api_thread>>

\* The snapshots the bus may publish next for a live channel.
UpdatedSnapshot(old, kind) ==
    CASE kind = "up" -> [old EXCEPT !.up = TRUE]
      [] kind = "hangup" -> [old EXCEPT !.zombie = TRUE, !.hangupcause = "NORMAL_CLEARING"]
      [] kind = "hangup_other" -> [old EXCEPT !.zombie = TRUE, !.hangupcause = "OTHER"]
      [] kind = "exec" -> [old EXCEPT !.cep = 1 - @, !.appl = "app"]
      [] kind = "exec_appdial" -> [old EXCEPT !.cep = 1 - @, !.appl = "AppDial"]
      [] OTHER -> old

UpdateKinds == {"up", "hangup", "hangup_other", "exec", "exec_appdial"}

\* ChannelCacheUpdate with both snapshots.
ChannelUpdated(c, kind) ==
    /\ CanSpend("updates")
    /\ cache[c].name # ""
    /\ UpdatedSnapshot(cache[c], kind) # cache[c]
    /\ Deliver(handle_channel_cache_message(Engine, cache[c],
                                            UpdatedSnapshot(cache[c], kind)))
    /\ cache' = [cache EXCEPT ![c] = UpdatedSnapshot(cache[c], kind)]
    /\ budget' = Spend("updates")
    /\ Serial("update", c, "", "")
    /\ UNCHANGED <<created, in_bridge, api_thread>>

\* ChannelCacheUpdate with no new snapshot: the channel is gone.
ChannelGone(c) ==
    /\ CanDeliver
    /\ cache[c].name # ""
    /\ Deliver(handle_channel_cache_message(Engine, cache[c], NullSnapshot))
    /\ cache' = [cache EXCEPT ![c] = NullSnapshot]
    /\ in_bridge' = [in_bridge EXCEPT ![c] = ""]
    /\ budget' = [budget EXCEPT !.events = @ + 1]
    /\ Serial("gone", c, "", "")
    /\ UNCHANGED <<created, api_thread>>

\* A channel-gone update delivered once more for a channel that is gone.
ChannelGoneAgain(c) ==
    /\ CanSpend("stale")
    /\ c \in created /\ cache[c].name = ""
    /\ Deliver(handle_channel_cache_message(Engine, [NullSnapshot EXCEPT !.name = c],
                                            NullSnapshot))
    /\ budget' = Spend("stale")
    /\ Serial("gone_again", c, "", "")
    /\ UNCHANGED <<cache, created, in_bridge, api_thread>>

\* ChannelDial without a dial status. The caller is "" for an origination.
\* The channels named are live.
DialBegin(caller, peer) ==
    /\ CanSpend("dials")
    /\ caller # peer
    /\ cache[peer].name # ""
    /\ caller # "" => cache[caller].name # ""
    /\ Deliver(handle_dial_message(Engine, caller, peer, ""))
    /\ budget' = Spend("dials")
    /\ Serial("dial_begin", caller, peer, "")
    /\ UNCHANGED <<cache, created, in_bridge, api_thread>>

\* ChannelDial with a dial status.
DialEnd(caller, peer, dial_status) ==
    /\ CanSpend("dials")
    /\ caller # peer
    /\ cache[peer].name # ""
    /\ caller # "" => cache[caller].name # ""
    /\ Deliver(handle_dial_message(Engine, caller, peer, dial_status))
    /\ budget' = Spend("dials")
    /\ Serial("dial_end", caller, peer, "")
    /\ UNCHANGED <<cache, created, in_bridge, api_thread>>

\* The chains whose lock handle_bridge_enter_message takes: the channel's own
\* and, while it scans for candidates, those the bridge index holds under
\* the bridge id.
BridgeEnterLocks(c, b) ==
    {ao2_find_channel(chains, active_cdrs_by_channel, c)}
      \cup {k \in Linked(active_cdrs_by_bridge) : cdr_object_bridge_cmp_fn(chains[k], b)}

\* BridgeEnter for a live channel that is in no bridge.
BridgeEnter(c, b) ==
    /\ running /\ ~crashed /\ budget.events < bus.events
    /\ api_thread = Idle \/ api_thread.chain \notin BridgeEnterLocks(c, b)
    /\ cache[c].name # "" /\ in_bridge[c] = ""
    /\ Deliver(handle_bridge_enter_message(Engine, b, cache[c]))
    /\ in_bridge' = [in_bridge EXCEPT ![c] = b]
    /\ budget' = [budget EXCEPT !.events = @ + 1]
    /\ Serial("bridge_enter", c, "", b)
    /\ UNCHANGED <<cache, created, api_thread>>

\* handle_bridge_enter_message on a publisher thread, up to the lock of the
\* channel's own chain (the handler returns at once when there is none).
\* The bus takes the first thread that is free.
EnterLock(t, c, b) ==
    /\ running /\ ~crashed /\ api_thread = Idle /\ budget.events < bus.events
    /\ router_threads[t] = Returned
    /\ \A u \in 1..(t - 1) : router_threads[u] # Returned
    /\ cache[c].name # "" /\ in_bridge[c] = ""
    /\ ao2_find_channel(chains, active_cdrs_by_channel, c) # 0
    /\ \A u \in Threads :
          router_threads[u].chain # ao2_find_channel(chains, active_cdrs_by_channel, c)
    /\ router_threads' =
          [router_threads EXCEPT ![t] =
              [chain |-> ao2_find_channel(chains, active_cdrs_by_channel, c),
               channel |-> c, bridge |-> b]]
    /\ in_bridge' = [in_bridge EXCEPT ![c] = b]
    /\ budget' = [budget EXCEPT !.events = @ + 1]
    /\ Step("bridge_enter_lock", c, "", b)
    /\ UNCHANGED <<chains, active_cdrs_by_channel, active_cdrs_by_bridge,
                   global_cdr_sequence, dispatched, cache, created, crashed,
                   api_thread, lock_audit, leaked>>

\* Thread t, holding its own chain, needs a chain lock that thread u holds:
\* one of the chains the bridge index returns for the bridge t's channel
\* enters.
WaitsFor(t, u) ==
    /\ t # u
    /\ router_threads[t].chain # 0
    /\ router_threads[u].chain # 0
    /\ router_threads[u].chain
          \in BridgeEnterLocks(router_threads[t].channel, router_threads[t].bridge)

\* The rest of that handler, which takes the lock of every chain the bridge
\* index returns and so runs once no other thread holds one of them.
EnterRun(t) ==
    /\ running /\ ~crashed
    /\ router_threads[t].chain # 0
    /\ \A u \in Threads : ~WaitsFor(t, u)
    /\ Deliver(EnterLocked(ao2_lock(Engine, router_threads[t].chain),
                           router_threads[t].chain, router_threads[t].bridge,
                           cache[router_threads[t].channel]))
    /\ router_threads' = [router_threads EXCEPT ![t] = Returned]
    /\ Step("bridge_enter", router_threads[t].channel, "", router_threads[t].bridge)
    /\ UNCHANGED <<cache, created, in_bridge, budget, api_thread>>

\* BridgeLeave for a live channel, from the bridge it is in.
BridgeLeave(c, b) ==
    /\ CanDeliver
    /\ cache[c].name # "" /\ in_bridge[c] = b
    /\ Deliver(handle_bridge_leave_message(Engine, b, cache[c]))
    /\ in_bridge' = [in_bridge EXCEPT ![c] = ""]
    /\ budget' = [budget EXCEPT !.events = @ + 1]
    /\ Serial("bridge_leave", c, "", b)
    /\ UNCHANGED <<cache, created, api_thread>>

\* A channel that was announced and is gone: the channel index holds no chain
\* under its name.
Gone(c) == c \in created /\ cache[c].name = ""

\* BridgeEnter delivered for a channel that is gone.
BridgeEnterGone(c, b) ==
    /\ CanSpend("stale")
    /\ Gone(c)
    /\ Deliver(handle_bridge_enter_message(Engine, b, [NullSnapshot EXCEPT !.name = c]))
    /\ budget' = Spend("stale")
    /\ Serial("bridge_enter", c, "", b)
    /\ UNCHANGED <<cache, created, in_bridge, api_thread>>

\* BridgeLeave delivered for a channel that is gone.
BridgeLeaveGone(c, b) ==
    /\ CanSpend("stale")
    /\ Gone(c)
    /\ Deliver(handle_bridge_leave_message(Engine, b, [NullSnapshot EXCEPT !.name = c]))
    /\ budget' = Spend("stale")
    /\ Serial("bridge_leave", c, "", b)
    /\ UNCHANGED <<cache, created, in_bridge, api_thread>>

\* ChannelDial delivered when every channel it names is gone.
DialGone(caller, peer, dial_status) ==
    /\ CanSpend("stale")
    /\ caller # peer
    /\ Gone(peer)
    /\ caller # "" => Gone(caller)
    /\ Deliver(handle_dial_message(Engine, caller, peer, dial_status))
    /\ budget' = Spend("stale")
    /\ Serial(IF dial_status = "" THEN "dial_begin" ELSE "dial_end", caller, peer, "")
    /\ UNCHANGED <<cache, created, in_bridge, api_thread>>

\* ChannelDial for a live caller and a peer that has no chain: one that is
\* gone, or one the engine was never told of.
DialPeerGone(caller, peer, dial_status) ==
    /\ CanSpend("stale")
    /\ caller # peer
    /\ cache[caller].name # ""
    /\ cache[peer].name = ""
    /\ Deliver(handle_dial_message(Engine, caller, peer, dial_status))
    /\ budget' = Spend("stale")
    /\ Serial(IF dial_status = "" THEN "dial_begin" ELSE "dial_end", caller, peer, "")
    /\ UNCHANGED <<cache, created, in_bridge, api_thread>>

\* The values ast_cdr_setuserfield is called with.
Userfields == {"u"}

\* ast_cdr_setuserfield, called with the name of a channel that was announced.
SetUserfield(c, userfield) ==
    /\ CanSpend("api")
    /\ c \in created
    /\ Deliver(ast_cdr_setuserfield(ApiEngine, c, userfield))
    /\ budget' = Spend("api")
    /\ last_event' = [type |-> "userfield", channel |-> c, peer |-> "", bridge |-> "",
                      userfield |-> userfield]
    /\ now' = now + 1
    /\ UNCHANGED <<mod_cfg, bus, call, running, router_threads, cache, created,
                   in_bridge, api_thread>>

\* ast_cdr_serialize_variables, called on a channel thread with the name of
\* a channel that was announced.
SerializeVariables(c) ==
    /\ CanSpend("api")
    /\ c \in created
    /\ Deliver(ast_cdr_serialize_variables(ApiEngine, c))
    /\ budget' = Spend("api")
    /\ Serial("serialize", c, "", "")
    /\ UNCHANGED <<mod_cfg, bus, call, cache, created, in_bridge, api_thread>>

\* ChannelDial for a dial begin between live channels while the allocator
\* has no memory for a new record.
DialBeginNoMemory(caller, peer) ==
    /\ CanSpend("dials")
    /\ caller # peer
    /\ cache[peer].name # ""
    /\ caller # "" => cache[caller].name # ""
    /\ Deliver(handle_dial_message([Engine EXCEPT !.nomem = TRUE], caller, peer, ""))
    /\ budget' = Spend("dials")
    /\ Serial("dial_begin", caller, peer, "")
    /\ UNCHANGED <<cache, created, in_bridge, api_thread>>

\* cdr_engine_shutdown, run at exit: the dispatch-all pass over the channel
\* index. The chains stay linked.
Shutdown ==
    /\ running /\ ~crashed /\ api_thread = Idle
    /\ Deliver(cdr_engine_shutdown(Engine))
    /\ Serial("shutdown", "", "", "")
    /\ UNCHANGED <<cache, created, in_bridge, budget, api_thread>>

ForkOptions == {{}, {"Finalize"}, {"Reset"}, {"SetAnswer"}, {"KeepVars"}}

\* ast_cdr_fork, called on a live channel, as one step.
Fork(c, options) ==
    /\ CanSpend("api")
    /\ cache[c].name # ""
    /\ ao2_find_channel(chains, active_cdrs_by_channel, c) # 0
    /\ Deliver(ast_cdr_fork(Engine, ao2_find_channel(chains, active_cdrs_by_channel, c),
                            options))
    /\ budget' = Spend("api")
    /\ last_event' = [type |-> "fork", channel |-> c, peer |-> "", bridge |-> "",
                      options |-> options]
    /\ now' = now + 1
    /\ UNCHANGED <<cache, created, in_bridge, api_thread, mod_cfg, bus, call, running,
                   router_threads>>

ResetOptions == {{}, {"KeepVars"}}

\* ast_cdr_reset, called on a live channel.
Reset(c, options) ==
    /\ CanSpend("api")
    /\ cache[c].name # ""
    /\ ao2_find_channel(chains, active_cdrs_by_channel, c) # 0
    /\ chains' = [chains EXCEPT ![ao2_find_channel(chains, active_cdrs_by_channel, c)] =
                     ast_cdr_reset(@, options)]
    /\ budget' = Spend("api")
    /\ lock_audit' = Clean
    /\ UNCHANGED leaked
    /\ last_event' = [type |-> "reset", channel |-> c, peer |-> "", bridge |-> "",
                      options |-> options]
    /\ now' = now + 1
    /\ UNCHANGED <<active_cdrs_by_channel, active_cdrs_by_bridge, global_cdr_sequence,
                   dispatched, cache, created, in_bridge, crashed, api_thread,
                   mod_cfg, bus, call, running, router_threads>>

\* The chain lock taken and the sequence number fetched.
Forking(k, options) ==
    [pc |-> "append", chain |-> k, cdr_obj |-> chains[k][1].last,
     sequence |-> global_cdr_sequence, options |-> options]

\* ast_cdr_fork on the channel thread, up to the sequence number its new
\* record fetches: the thread holds the chain lock from here on. The call
\* returns at once when the last record is Finalized.
ForkAlloc(c, options) ==
    /\ CanSpend("api")
    /\ cache[c].name # ""
    /\ ao2_find_channel(chains, active_cdrs_by_channel, c) # 0
    /\ api_thread' = Forking(ao2_find_channel(chains, active_cdrs_by_channel, c), options)
    /\ chains[api_thread'.chain][api_thread'.cdr_obj].fn_table # "Finalized"
    /\ global_cdr_sequence' = global_cdr_sequence + 1
    /\ budget' = Spend("api")
    /\ lock_audit' = Clean
    /\ UNCHANGED leaked
    /\ Serial("fork_alloc", c, "", "")
    /\ UNCHANGED <<chains, active_cdrs_by_channel, active_cdrs_by_bridge, dispatched,
                   cache, created, in_bridge, crashed>>

\* The rest of that ast_cdr_fork: the record is linked to the tail and
\* filled in, and the lock is released.
ForkLink ==
    /\ running /\ ~crashed
    /\ api_thread.pc = "append"
    /\ chains' = [chains EXCEPT ![api_thread.chain] =
                     ForkAppend(@, api_thread.cdr_obj, api_thread.sequence,
                                api_thread.options)]
    /\ api_thread' = Idle
    /\ lock_audit' = Clean
    /\ UNCHANGED leaked
    /\ Serial("fork", chains[api_thread.chain][1].name, "", "")
    /\ UNCHANGED <<active_cdrs_by_channel, active_cdrs_by_bridge, global_cdr_sequence,
                   dispatched, cache, created, in_bridge, budget, crashed>>

Configs == {[end_before_h_exten |-> e, congestion |-> g] : e \in BOOLEAN, g \in BOOLEAN}

\* The state after ast_cdr_engine_init.
Loaded ==
    /\ chains = <<>>
    /\ active_cdrs_by_channel = <<>>
    /\ active_cdrs_by_bridge = <<>>
    /\ global_cdr_sequence = 0
    /\ dispatched = <<>>
    /\ now = 1
    /\ mod_cfg \in Configs
    /\ cache = [c \in Channels |-> NullSnapshot]
    /\ created = {}
    /\ in_bridge = [c \in Channels |-> ""]
    /\ budget = [events |-> 0, updates |-> 0, dials |-> 0, api |-> 0, stale |-> 0]
    /\ crashed = FALSE
    /\ api_thread = Idle
    /\ running = TRUE
    /\ lock_audit = Clean
    /\ leaked = {}
    /\ router_threads = [t \in Threads |-> Returned]
    /\ last_event = Event("init", "", "", "")

Init ==
    /\ Loaded
    /\ ~mod_cfg.congestion
    /\ call = NoCall
    /\ bus = [channels |-> {"A", "B"}, events |-> MaxEvents, updates |-> MaxUpdates,
              dials |-> MaxDials, api |-> MaxApi, stale |-> 1]

Next ==
    \/ \E c \in Channels, dialed \in BOOLEAN : ChannelCreated(c, dialed)
    \/ \E c \in Channels, kind \in UpdateKinds : ChannelUpdated(c, kind)
    \/ \E c \in Channels : ChannelGone(c)
    \/ \E c \in Channels : ChannelGoneAgain(c)
    \/ \E caller \in Channels \cup {""}, peer \in Channels : DialBegin(caller, peer)
    \/ \E caller \in Channels \cup {""}, peer \in Channels, st \in DialStatuses :
          DialEnd(caller, peer, st)
    \/ \E c \in Channels, b \in Bridges : BridgeEnter(c, b)
    \/ \E c \in Channels, b \in Bridges : BridgeLeave(c, b)
    \/ \E c \in Channels, b \in Bridges : BridgeEnterGone(c, b)
    \/ \E c \in Channels, b \in Bridges : BridgeLeaveGone(c, b)
    \/ \E caller \in Channels \cup {""}, peer \in Channels, st \in DialStatuses \cup {""} :
          DialGone(caller, peer, st)
    \/ \E caller \in Channels, peer \in Channels, st \in {"", "ANSWER"} :
          DialPeerGone(caller, peer, st)
    \/ \E c \in Channels, options \in ForkOptions : Fork(c, options)
    \/ \E c \in Channels, options \in ResetOptions : Reset(c, options)
    \/ Shutdown

Spec == Init /\ [][Next]_vars

\* Three channels, of which one is dialed into a bridge and the others
\* follow, with ast_cdr_fork taken apart at its append.
PairInit ==
    /\ Loaded
    /\ ~mod_cfg.congestion
    /\ call = NoCall
    /\ bus = [channels |-> Channels, events |-> MaxPairEvents, updates |-> 0,
              dials |-> MaxPairDials, api |-> 1, stale |-> 1]

PairNext ==
    \/ \E c \in Channels, dialed \in BOOLEAN : ChannelCreated(c, dialed)
    \/ \E c \in Channels : ChannelGone(c)
    \/ \E c \in Channels : ChannelGoneAgain(c)
    \/ \E caller \in Channels, peer \in Channels : DialBegin(caller, peer)
    \/ \E c \in Channels, b \in Bridges : BridgeEnter(c, b)
    \/ \E c \in Channels : ForkAlloc(c, {})
    \/ ForkLink

PairSpec == PairInit /\ [][PairNext]_vars

\* Two channels, one dial between them, a bridge, and one call of
\* ast_cdr_setuserfield.
ApiInit ==
    /\ Loaded
    /\ ~mod_cfg.congestion
    /\ call = NoCall
    /\ bus = [channels |-> {"A", "B"}, events |-> MaxApiEvents, updates |-> 0,
              dials |-> 1, api |-> MaxApi, stale |-> 0]

ApiNext ==
    \/ \E c \in Channels, dialed \in BOOLEAN : ChannelCreated(c, dialed)
    \/ \E c \in Channels : ChannelGone(c)
    \/ \E caller \in Channels \cup {""}, peer \in Channels : DialBegin(caller, peer)
    \/ \E c \in Channels, b \in Bridges : BridgeEnter(c, b)
    \/ \E c \in Channels, b \in Bridges : BridgeLeave(c, b)
    \/ \E c \in Channels, userfield \in Userfields : SetUserfield(c, userfield)
    \/ \E c \in Channels : SerializeVariables(c)
    \/ \E caller \in Channels \cup {""}, peer \in Channels : DialBeginNoMemory(caller, peer)

ApiSpec == ApiInit /\ [][ApiNext]_vars

\* Two callers dial one callee once the three channels exist, and enter and
\* leave bridges after the dials; every bridge enter is handled on a
\* publisher thread.
LockBridges == {"b1", "b2"}

LockInit ==
    /\ Loaded
    /\ ~mod_cfg.congestion
    /\ call = NoCall
    /\ ~mod_cfg.end_before_h_exten
    /\ bus = [channels |-> Channels, events |-> MaxLockEvents, updates |-> 1,
              dials |-> MaxLockDials, api |-> 0, stale |-> 0]

LockNext ==
    \/ \E c \in Channels : ChannelCreated(c, FALSE)
    \/ ChannelUpdated("C", "hangup")
    \/ \E caller \in {"A", "B"} : created = bus.channels /\ DialBegin(caller, "C")
    \/ \E c \in {"A", "B"}, b \in LockBridges : BridgeLeave(c, b)
    \/ \E t \in Threads, c \in {"A", "B"}, b \in LockBridges :
          budget.dials = bus.dials /\ EnterLock(t, c, b)
    \/ \E t \in Threads : EnterRun(t)

LockSpec == LockInit /\ [][LockNext]_vars

(* ------------------------- functions on their own --------------------- *)
\* Answer and end times around the half and the whole seconds.
Millis == {t \in 0..MaxMillis : t % 500 \in {0, 1, 499}}

BillsecCalls ==
    [fn : {"cdr_object_get_billsec"}, answer : Millis, end : Millis,
     initiatedseconds : BOOLEAN, done : {FALSE}, result : {0}]

\* struct cdr_object_snapshot of a channel with the given flags and
\* creation time.
PartySnapshots(name) ==
    {[snapshot |-> [NullSnapshot EXCEPT !.name = name, !.outgoing = outgoing,
                                        !.originated = originated,
                                        !.creationtime = [tv_sec |-> sec, tv_usec |-> usec]],
      userfield |-> "", flags |-> flags, variables |-> {}] :
        outgoing \in BOOLEAN, originated \in BOOLEAN, flags \in {{}, {"PartyA"}},
        sec \in 1..MaxCreationSec, usec \in 0..1}

PickCalls ==
    [fn : {"cdr_object_pick_party_a"}, left : PartySnapshots("L"),
     right : PartySnapshots("R"), done : {FALSE}, result : {""}]

Dispositions == {"NOANSWER", "NULL", "FAILED", "BUSY", "ANSWERED", "CONGESTION"}

\* struct ast_cdr, the fields post_cdr reads; the rows of one list carry
\* the sequence numbers 1, 2, ...
PublicRecords(sequence) ==
    [sequence : {sequence}, disposition : Dispositions, channel : {"", "A"},
     dstchannel : {"", "B"}, flags : {{}, {"Disable"}}]

RowLists ==
    UNION {{rows \in [1..n -> UNION {PublicRecords(k) : k \in 1..n}] :
               \A k \in 1..n : rows[k].sequence = k} : n \in 0..MaxRows}

\* be_list, as ast_cdr_register has left it.
BackendLists == {<<>>, <<"csv">>, <<"csv", "odbc">>}

PostCalls ==
    [fn : {"post_cdr"}, rows : RowLists, unanswered : BOOLEAN,
     be_list : BackendLists, done : {FALSE}, result : {<<>>}]

\* The dial statuses of a dial end; the last one is none the engine knows.
DialEndStatuses ==
    {"ANSWER", "BUSY", "CANCEL", "NOANSWER", "CONGESTION", "FAILED", "CHANUNAVAIL"}

\* A record of channel A in the Dial state, at place `at` of its chain.
DialRecord(at, party_b) ==
    [cdr_object_alloc([NullSnapshot EXCEPT !.name = "A"], at, at - 1) EXCEPT
        !.fn_table = "Dial", !.party_b = party_b]

\* The Party B of such a record: none, channel B or channel C.
DialedParties ==
    {NullParty} \cup {[NullParty EXCEPT !.snapshot.name = name] : name \in {"B", "C"}}

DialChains ==
    {<<DialRecord(1, b)>> : b \in DialedParties}
      \cup {<<[DialRecord(1, b1) EXCEPT !.last = 2], DialRecord(2, b2)>> :
               b1 \in DialedParties, b2 \in DialedParties}

\* The dial end of A's dial of B, applied to A's chain.
DialEndCalls ==
    [fn : {"dial_state_process_dial_end"}, chain : DialChains,
     dial_status : DialEndStatuses, done : {FALSE}, result : {<<>>}]

CallDialEnd ==
    /\ call.fn = "dial_state_process_dial_end" /\ ~call.done
    /\ call' = [call EXCEPT
                   !.done = TRUE,
                   !.result = DialEndLoop(call.chain, [NullSnapshot EXCEPT !.name = "A"],
                                          [NullSnapshot EXCEPT !.name = "B"],
                                          call.dial_status)]
    /\ UNCHANGED <<chains, active_cdrs_by_channel, active_cdrs_by_bridge,
                   global_cdr_sequence, dispatched, now, mod_cfg, cache, created,
                   in_bridge, budget, crashed, bus, api_thread, running, lock_audit, leaked,
                   router_threads, last_event>>

HangupCauses ==
    {"NONE", "BUSY", "CONGESTION", "NO_ROUTE_DESTINATION", "UNREGISTERED",
     "NORMAL_CLEARING", "NO_ANSWER", "OTHER"}

\* A party with the given hangup cause.
HungUp(name, hangupcause) ==
    [NullParty EXCEPT !.snapshot.name = name, !.snapshot.hangupcause = hangupcause]

\* Records of channel A with and without an answer time, an end time and a
\* Party B.
FinalizeCalls ==
    {[fn |-> "cdr_object_finalize",
      cdr |-> [cdr_object_alloc([NullSnapshot EXCEPT !.name = "A"], 1, 0) EXCEPT
                  !.party_a = HungUp("A", a), !.party_b = b,
                  !.answer = answer, !.end = end, !.disposition = disposition],
      done |-> FALSE, result |-> <<>>] :
        a \in HangupCauses,
        b \in {NullParty} \cup {HungUp("B", cause) : cause \in HangupCauses},
        answer \in 0..1, end \in 0..1, disposition \in Dispositions}

CallFinalize ==
    /\ call.fn = "cdr_object_finalize" /\ ~call.done
    /\ call' = [call EXCEPT !.done = TRUE, !.result = cdr_object_finalize(call.cdr)]
    /\ UNCHANGED <<chains, active_cdrs_by_channel, active_cdrs_by_bridge,
                   global_cdr_sequence, dispatched, now, mod_cfg, cache, created,
                   in_bridge, budget, crashed, bus, api_thread, running, lock_audit, leaked,
                   router_threads, last_event>>

\* A chain of channel A whose one record is in DialedPending, with and
\* without a Party B.
DialedPendingCalls ==
    {[fn |-> "dialed_pending_state_process_dial_begin",
      chain |-> <<[DialRecord(1, b) EXCEPT !.fn_table = "DialedPending"]>>,
      pc |-> 1, done |-> FALSE, result |-> <<>>] : b \in DialedParties}

\* dialed_pending_state_process_dial_begin on the head of the chain, a
\* statement at a time: the transition to Finalized, the append, the
\* transition to Single, and the dial begin handed to the record itself by
\* the new record's table.
CallDialedPendingDialBegin ==
    /\ call.fn = "dialed_pending_state_process_dial_begin" /\ ~call.done
    /\ call' =
          CASE call.pc = 1 ->
                 [call EXCEPT !.pc = 2,
                              !.chain[1] = cdr_object_transition_state(@, "Finalized")]
            [] call.pc = 2 ->
                 [call EXCEPT !.pc = 3,
                              !.chain = cdr_object_create_and_append(@, 1, 1)]
            [] call.pc = 3 ->
                 [call EXCEPT !.pc = 4,
                              !.chain[1] = cdr_object_transition_state(@, "Single")]
            [] OTHER ->
                 [call EXCEPT !.done = TRUE,
                              !.chain[1] = single_state_process_dial_begin(
                                               @, [NullSnapshot EXCEPT !.name = "A"],
                                               [NullSnapshot EXCEPT !.name = "C"])]
    /\ UNCHANGED <<chains, active_cdrs_by_channel, active_cdrs_by_bridge,
                   global_cdr_sequence, dispatched, now, mod_cfg, cache, created,
                   in_bridge, budget, crashed, bus, api_thread, running, lock_audit, leaked,
                   router_threads, last_event>>

\* Time passes before the function is called.
ClockTick ==
    /\ call.fn # "" /\ ~call.done
    /\ now < MaxCallTime
    /\ now' = now + 1
    /\ UNCHANGED <<chains, active_cdrs_by_channel, active_cdrs_by_bridge,
                   global_cdr_sequence, dispatched, mod_cfg, cache, created,
                   in_bridge, budget, crashed, bus, api_thread, running, lock_audit, leaked,
                   router_threads, call, last_event>>

CallGetBillsec ==
    /\ call.fn = "cdr_object_get_billsec" /\ ~call.done
    /\ call' = [call EXCEPT !.done = TRUE,
                            !.result = BillsecOf(call.answer, call.end,
                                                 call.initiatedseconds)]
    /\ UNCHANGED <<chains, active_cdrs_by_channel, active_cdrs_by_bridge,
                   global_cdr_sequence, dispatched, now, mod_cfg, cache, created,
                   in_bridge, budget, crashed, bus, api_thread, running, lock_audit, leaked,
                   router_threads, last_event>>

CallPickPartyA ==
    /\ call.fn = "cdr_object_pick_party_a" /\ ~call.done
    /\ call' = [call EXCEPT !.done = TRUE,
                            !.result = PickedName(call.left, call.right)]
    /\ UNCHANGED <<chains, active_cdrs_by_channel, active_cdrs_by_bridge,
                   global_cdr_sequence, dispatched, now, mod_cfg, cache, created,
                   in_bridge, budget, crashed, bus, api_thread, running, lock_audit, leaked,
                   router_threads, last_event>>

CallPostCdr ==
    /\ call.fn = "post_cdr" /\ ~call.done
    /\ call' = [call EXCEPT !.done = TRUE,
                            !.result = post_cdr(call.rows, call.unanswered, call.be_list)]
    /\ UNCHANGED <<chains, active_cdrs_by_channel, active_cdrs_by_bridge,
                   global_cdr_sequence, dispatched, now, mod_cfg, cache, created,
                   in_bridge, budget, crashed, bus, api_thread, running, lock_audit, leaked,
                   router_threads, last_event>>

\* The engine as loaded, and one function called on arguments of its own.
FunctionInit ==
    /\ Loaded
    /\ bus = [channels |-> {}, events |-> 0, updates |-> 0, dials |-> 0, api |-> 0,
              stale |-> 0]
    /\ call \in BillsecCalls \cup PickCalls \cup PostCalls \cup DialEndCalls
                \cup FinalizeCalls \cup DialedPendingCalls

FunctionNext ==
    \/ CallGetBillsec
    \/ CallPickPartyA
    \/ CallPostCdr
    \/ CallDialEnd
    \/ CallFinalize
    \/ CallDialedPendingDialBegin
    \/ ClockTick

FunctionSpec == FunctionInit /\ [][FunctionNext]_vars

(* ------------------------------ properties ----------------------------- *)
\* The chains that exist: a chain lives while an index links it.
Live == Linked(active_cdrs_by_channel) \cup Linked(active_cdrs_by_bridge)

\* The router callbacks, as last_event names them.
InboundEvents ==
    {"create", "update", "gone", "gone_again", "dial_begin", "dial_end",
     "bridge_enter", "bridge_leave"}

\* The chain the channel index holds for the channel of the step being taken.
EventChain == ao2_find_channel(chains, active_cdrs_by_channel, last_event'.channel)

\* Field f of record (k, i) is the same after the step.
Same(k, i, f) == chains'[k][i][f] = chains[k][i][f]

\* C1: a channel-gone update for a channel that has a chain dispatches that
\* chain exactly once, every record of it carrying an end time when the rows
\* are built, and leaves the chain out of the channel index; a channel-gone
\* update delivered again for the same name dispatches nothing.
ChannelGoneDispatchesOnce ==
    [][/\ (last_event'.type = "gone" /\ ~crashed' /\ EventChain # 0) =>
              /\ Len(dispatched') = Len(dispatched) + 1
              /\ dispatched'[Len(dispatched')].chain = EventChain
              /\ \A j \in 1..Len(dispatched'[Len(dispatched')].ends) :
                     dispatched'[Len(dispatched')].ends[j] # 0
              /\ EventChain \notin Linked(active_cdrs_by_channel')
       /\ last_event'.type = "gone_again" => dispatched' = dispatched]_vars

FinalizedKept(k, i) ==
    /\ Same(k, i, "party_a") /\ Same(k, i, "party_b") /\ Same(k, i, "start")
    /\ Same(k, i, "answer") /\ Same(k, i, "fn_table")
    /\ chains[k][i].end # 0 => Same(k, i, "end") /\ Same(k, i, "disposition")
    /\ chains[k][i].end = 0 =>
          /\ chains'[k][i].end \in {0, now}
          /\ chains'[k][i].end = 0 => Same(k, i, "disposition")
          /\ chains[k][i].disposition # "NULL" => Same(k, i, "disposition")

PartyAIsRecordName ==
    \A k \in Live : \A i \in 1..Len(chains[k]) :
        chains[k][i].party_a.snapshot.name = chains[k][i].name

\* A chain that has taken a dial with a Party B and has just been forked.
ForkedChainWithPartyB ==
    /\ last_event.type = "fork"
    /\ \E k \in Linked(active_cdrs_by_channel) :
          /\ chains[k][1].name = last_event.channel
          /\ Len(chains[k]) >= 2
          /\ \E i \in 1..Len(chains[k]) : HasSnapshot(chains[k][i].party_b)

\* C4: the head's `last` designates the tail of its chain.
HeadLastIsTail ==
    \A k \in Live : chains[k][1].last = Len(chains[k])

\* C5: the chain of every record that carries a bridge id is in the bridge
\* index and among the chains a lookup under that id returns.
BridgedRecordsAreIndexed ==
    \A k \in Live : \A i \in 1..Len(chains[k]) :
        chains[k][i].bridge # "" =>
            k \in Linked(BridgeLookup(chains, active_cdrs_by_bridge, chains[k][i].bridge))

\* C6: when a bridge-leave message for a channel and a bridge has been
\* processed, no record of the channel's chain is Bridged in that bridge.
LeaveClearsBridge ==
    (last_event.type = "bridge_leave" /\ ~crashed) =>
        \A k \in Linked(active_cdrs_by_channel) :
            chains[k][1].name = last_event.channel =>
                \A i \in 1..Len(chains[k]) :
                    ~(chains[k][i].fn_table = "Bridged"
                      /\ chains[k][i].bridge = last_event.bridge)

\* A channel has just left its bridge: a record with a Party B was
\* taken out of the bridge and the Pending record follows it.
LeftBridgeWithPartyB ==
    /\ last_event.type = "bridge_leave" /\ ~crashed
    /\ \E k \in Linked(active_cdrs_by_channel) :
          /\ chains[k][1].name = last_event.channel
          /\ chains[k][Len(chains[k])].fn_table = "Pending"
          /\ \E i \in 1..Len(chains[k]) :
                /\ chains[k][i].fn_table = "Finalized" /\ chains[k][i].bridge = ""
                /\ HasSnapshot(chains[k][i].party_b)

\* C7: the channel index holds at most one chain per channel name, and a
\* chain under a name exactly while the channel of that name exists.
OneChainPerLiveChannel ==
    /\ \A m, n \in 1..Len(active_cdrs_by_channel) :
          chains[active_cdrs_by_channel[m]][1].name = chains[active_cdrs_by_channel[n]][1].name
              => m = n
    /\ \A c \in Channels :
          (cache[c].name # "") <=>
              (\E k \in Linked(active_cdrs_by_channel) : chains[k][1].name = c)

\* C8: sequence numbers are below the counter, no two records share one,
\* and within a chain they increase from the head to the tail.
SequencesIncrease ==
    /\ \A k \in Live : \A i \in 1..Len(chains[k]) : chains[k][i].sequence < global_cdr_sequence
    /\ \A k, l \in Live : \A i \in 1..Len(chains[k]), j \in 1..Len(chains[l]) :
          chains[k][i].sequence = chains[l][j].sequence => k = l /\ i = j
    /\ \A k \in Live : \A i, j \in 1..Len(chains[k]) :
          i < j => chains[k][i].sequence < chains[k][j].sequence

\* C9: a record whose start, answer and end times are all set has
\* start <= answer <= end.
TimesOrdered ==
    \A k \in Live : \A i \in 1..Len(chains[k]) :
        (chains[k][i].start # 0 /\ chains[k][i].answer # 0 /\ chains[k][i].end # 0) =>
            chains[k][i].end >= chains[k][i].answer /\ chains[k][i].answer >= chains[k][i].start

\* C10, as stated: no router callback clears or overwrites an end time that
\* is set.
EndWrittenOnce ==
    [][last_event'.type \in InboundEvents =>
          \A k \in Live : \A i \in 1..Len(chains[k]) :
              chains[k][i].end # 0 => Same(k, i, "end")]_vars

\* An end time that is set stays, unless the step is the bridge enter that
\* makes the entering channel the Party B of this Bridged record.
EndKeptOrPaired(k, i) ==
    chains[k][i].end # 0 =>
        \/ Same(k, i, "end")
        \/ /\ last_event'.type = "bridge_enter"
           /\ chains[k][i].fn_table = "Bridged"
           /\ chains[k][i].bridge = last_event'.bridge
           /\ chains'[k][i].party_b.snapshot.name = last_event'.channel
           /\ chains'[k][i].end = 0

\* C10, amended: a router callback leaves an end time that is set as it is,
\* except that a bridge enter clears the end time of a Bridged record of
\* that bridge when it installs the entering channel as its Party B.
EndKeptUnlessPaired ==
    [][last_event'.type \in InboundEvents =>
          \A k \in Live : \A i \in 1..Len(chains[k]) : EndKeptOrPaired(k, i)]_vars

\* A Bridged record that was ended before the last callback, a bridge enter
\* into its bridge by a channel that took the record's channel as Party B,
\* and still carries that end time.
EndKeptAcrossPairing ==
    /\ last_event.type = "bridge_enter" /\ ~crashed
    /\ \E k \in Live : \E i \in 1..Len(chains[k]) :
          /\ chains[k][i].fn_table = "Bridged"
          /\ chains[k][i].bridge = last_event.bridge
          /\ chains[k][i].end # 0 /\ chains[k][i].end < now - 1
          /\ \E l \in Linked(active_cdrs_by_channel) : \E j \in 1..Len(chains[l]) :
                /\ chains[l][j].name = last_event.channel
                /\ chains[l][j].fn_table = "Bridged"
                /\ chains[l][j].party_b.snapshot.name = chains[k][i].name

\* C11: a record's disposition is unset exactly as long as the record has
\* never been finalized. Step by step: a step that gives a record its end
\* time leaves it with a disposition, and a step that gives a record a
\* disposition gives it an end time or finds one.
DispositionSetByFinalize ==
    [][\A k \in 1..Len(chains) : \A i \in 1..Len(chains[k]) :
          /\ (chains[k][i].end = 0 /\ chains'[k][i].end # 0) =>
                chains'[k][i].disposition # "NULL"
          /\ (chains[k][i].disposition = "NULL" /\ chains'[k][i].disposition # "NULL") =>
                chains'[k][i].end # 0]_vars

\* C12: the shutdown pass dispatches every chain of the channel index
\* exactly once, and every row it dispatches has an end time and a
\* disposition.
ShutdownDispatchesFinalized ==
    [][last_event'.type = "shutdown" =>
          /\ Len(dispatched') = Len(dispatched) + Len(active_cdrs_by_channel)
          /\ \A k \in Linked(active_cdrs_by_channel) :
                Cardinality({n \in (Len(dispatched) + 1)..Len(dispatched') :
                                dispatched'[n].chain = k}) = 1
          /\ \A n \in (Len(dispatched) + 1)..Len(dispatched') :
                \A r \in 1..Len(dispatched'[n].rows) :
                    /\ dispatched'[n].rows[r].end # 0
                    /\ dispatched'[n].rows[r].disposition # "NULL"]_vars

\* C13: every write a router callback makes to a record's parties, state,
\* times, disposition or links is made while the thread holds the lock of
\* the record's chain.
WritesHoldChainLock ==
    last_event.type \in InboundEvents => lock_audit.unlocked = {}

\* C14: no thread takes an index lock while it holds a chain lock.
NoIndexLockUnderChainLock == lock_audit.nested = {}

\* C15: with handlers running on several threads no state is a deadlock:
\* two threads that each hold their own chain lock in bridge enter never
\* wait for each other's chain.
NoChainLockDeadlock ==
    \A t \in Threads, u \in Threads : ~(WaitsFor(t, u) /\ WaitsFor(u, t))

\* The state before the channel-gone update of a channel that was created,
\* became Up with the next message, entered a bridge alone and left it, with
\* no other event: chain k is the channel's.
LoneBridgeCall(k) ==
    /\ last_event.type = "bridge_leave"
    /\ created = {last_event.channel}
    /\ budget = [events |-> 4, updates |-> 1, dials |-> 0, api |-> 0, stale |-> 0]
    /\ cache[last_event.channel].up /\ ~cache[last_event.channel].zombie
    /\ cache[last_event.channel].cep = 0
    /\ k = ao2_find_channel(chains, active_cdrs_by_channel, last_event.channel)
    /\ k # 0
    /\ chains[k][1].answer = chains[k][1].start + 1

\* What the backends are handed of the chain dispatched last, with one
\* backend registered.
LastPosted(unanswered) ==
    post_cdr(dispatched[Len(dispatched)].rows, unanswered, <<"be">>)

\* C16: a channel created at t0, Up at ta, that enters a bridge alone, leaves
\* it and is gone at te gives the backends exactly one row: no dstchannel,
\* start t0, answer ta, end te, duration te - t0, billsec te - ta, Answered.
LoneBridgeCallRow ==
    [][\A k \in 1..Len(chains) :
          (LoneBridgeCall(k) /\ last_event'.type = "gone") =>
              \A unanswered \in BOOLEAN :
                 /\ Len(LastPosted(unanswered)') = 1
                 /\ LastPosted(unanswered)'[1].cdr.dstchannel = ""
                 /\ LastPosted(unanswered)'[1].cdr.start = chains[k][1].start
                 /\ LastPosted(unanswered)'[1].cdr.answer = chains[k][1].answer
                 /\ LastPosted(unanswered)'[1].cdr.end = now
                 /\ LastPosted(unanswered)'[1].cdr.duration = now - chains[k][1].start
                 /\ LastPosted(unanswered)'[1].cdr.billsec = now - chains[k][1].answer
                 /\ LastPosted(unanswered)'[1].cdr.disposition = "ANSWERED"]_vars

\* The records of a chain whose Party A is not a dialed channel, in chain
\* order.
NotDialed(chain) ==
    SelectSeq(chain, LAMBDA cdr : ~(/\ cdr.party_a.snapshot.outgoing
                                   /\ ~cdr.party_a.snapshot.originated))

\* C17: the rows built for a chain are one per record whose Party A is not
\* dialed, in chain order, and none for a record whose Party A is dialed.
OneRowPerNotDialedRecord ==
    [][\A n \in (Len(dispatched) + 1)..Len(dispatched') :
          /\ Len(dispatched'[n].rows) = Len(NotDialed(chains'[dispatched'[n].chain]))
          /\ \A j \in 1..Len(dispatched'[n].rows) :
                dispatched'[n].rows[j] =
                    PublicRecord(NotDialed(chains'[dispatched'[n].chain])[j])]_vars

\* Rows were built for a chain of several records of a channel that is not
\* dialed, and for the chain of a dialed channel, which gave none.
RowsBuiltForBoth ==
    \E n, m \in 1..Len(dispatched) :
        /\ Len(dispatched[n].rows) >= 2
        /\ Len(dispatched[n].rows) = Len(chains[dispatched[n].chain])
        /\ dispatched[m].rows = <<>>
        /\ chains[dispatched[m].chain][1].party_a.snapshot.outgoing

\* C18: a row is handed to the backends exactly when its Disable flag is
\* clear and it is not an unanswered row (unanswered off, disposition below
\* Answered, channel or dstchannel empty); a row that passes is handed to
\* every registered backend once, a row that does not pass to none.
Passes(cdr, unanswered) ==
    /\ "Disable" \notin cdr.flags
    /\ ~(/\ ~unanswered
          /\ cdr.disposition \in {"NOANSWER", "NULL", "FAILED", "BUSY"}
          /\ (cdr.channel = "" \/ cdr.dstchannel = ""))

Handed(cdr, be) ==
    Cardinality({n \in 1..Len(call.result) : call.result[n] = [be |-> be, cdr |-> cdr]})

PassingRowsReachEveryBackendOnce ==
    (call.fn = "post_cdr" /\ call.done) =>
        /\ \A r \in 1..Len(call.rows), b \in 1..Len(call.be_list) :
              Handed(call.rows[r], call.be_list[b])
                  = (IF Passes(call.rows[r], call.unanswered) THEN 1 ELSE 0)
        /\ \A n \in 1..Len(call.result) :
              \E r \in 1..Len(call.rows), b \in 1..Len(call.be_list) :
                  call.result[n] = [be |-> call.be_list[b], cdr |-> call.rows[r]]

\* post_cdr has run with two backends on a row that passes and a row that
\* carries the Disable flag.
PostedOneOfTwoRows ==
    /\ call.fn = "post_cdr" /\ call.done
    /\ Len(call.be_list) = 2 /\ Len(call.rows) = 2
    /\ Passes(call.rows[1], call.unanswered)
    /\ "Disable" \in call.rows[2].flags
    /\ Len(call.result) = 2

EarlierCreation(a, b) ==
    \/ a.snapshot.creationtime.tv_sec < b.snapshot.creationtime.tv_sec
    \/ /\ a.snapshot.creationtime.tv_sec = b.snapshot.creationtime.tv_sec
       /\ a.snapshot.creationtime.tv_usec < b.snapshot.creationtime.tv_usec

OrderedRule(left, right) ==
    IF snapshot_is_dialed(left.snapshot) # snapshot_is_dialed(right.snapshot)
    THEN (IF snapshot_is_dialed(right.snapshot) THEN "L" ELSE "R")
    ELSE IF ("PartyA" \in left.flags) # ("PartyA" \in right.flags)
    THEN (IF "PartyA" \in left.flags THEN "L" ELSE "R")
    ELSE IF EarlierCreation(left, right) THEN "L"
    ELSE IF EarlierCreation(right, left) THEN "R"
    ELSE "L"

\* C20: the Party-A pick of two party snapshots is the ordered rule: not
\* dialed beats dialed, then the PartyA flag on either side, then the
\* earlier creation time (seconds, then microseconds), then the left one.
PickIsOrderedRule ==
    (call.fn = "cdr_object_pick_party_a" /\ call.done) =>
        call.result = OrderedRule(call.left, call.right)

\* The disposition a dial status stands for.
DispositionOfStatus(dial_status) ==
    IF dial_status = "ANSWER" THEN "ANSWERED"
    ELSE IF dial_status = "BUSY" THEN "BUSY"
    ELSE IF dial_status = "CANCEL" \/ dial_status = "NOANSWER" THEN "NOANSWER"
    ELSE IF dial_status = "CONGESTION" /\ mod_cfg.congestion THEN "CONGESTION"
    ELSE "FAILED"

\* C21: a dial end applied to a Dial record whose Party B is the dial's
\* peer, or that has none, sets the disposition the status stands for and
\* moves the record to DialedPending when that is Answered and to Finalized
\* otherwise; a Dial record of the chain with another Party B keeps its
\* state and disposition.
DialEndDisposesOwnPeer ==
    (call.fn = "dial_state_process_dial_end" /\ call.done) =>
        \A j \in 1..Len(call.chain) :
           IF call.chain[j].party_b.snapshot.name \in {"", "B"}
           THEN /\ call.result[j].disposition = DispositionOfStatus(call.dial_status)
                /\ call.result[j].fn_table =
                      (IF DispositionOfStatus(call.dial_status) = "ANSWERED"
                       THEN "DialedPending" ELSE "Finalized")
           ELSE /\ call.result[j].fn_table = "Dial"
                /\ call.result[j].disposition = call.chain[j].disposition

\* A CONGESTION dial end, with congestion logged, on a chain of a record
\* that dialed the peer and a record that dialed another channel.
DialEndOfTwoDials ==
    /\ call.fn = "dial_state_process_dial_end" /\ call.done
    /\ Len(call.chain) = 2
    /\ call.chain[1].party_b.snapshot.name = "B"
    /\ call.chain[2].party_b.snapshot.name = "C"
    /\ call.result[1].disposition = "CONGESTION"
    /\ call.result[1].fn_table = "Finalized"
    /\ call.result[2].fn_table = "Dial"

\* The disposition a hangup cause stands for; other causes leave the
\* disposition as it is.
DispositionOfCause(hangupcause, disposition) ==
    IF hangupcause = "BUSY" THEN "BUSY"
    ELSE IF hangupcause = "CONGESTION"
         THEN (IF mod_cfg.congestion THEN "CONGESTION" ELSE "FAILED")
    ELSE IF hangupcause \in {"NO_ROUTE_DESTINATION", "UNREGISTERED"} THEN "FAILED"
    ELSE IF hangupcause \in {"NORMAL_CLEARING", "NO_ANSWER"} THEN "NOANSWER"
    ELSE disposition

\* The disposition derived for a record whose disposition is Null.
DerivedDisposition(cdr) ==
    IF cdr.answer # 0 THEN "ANSWERED"
    ELSE IF cdr.party_a.snapshot.hangupcause # "NONE"
         THEN DispositionOfCause(cdr.party_a.snapshot.hangupcause, "NULL")
    ELSE IF cdr.party_b.snapshot.name # "" /\ cdr.party_b.snapshot.hangupcause # "NONE"
         THEN DispositionOfCause(cdr.party_b.snapshot.hangupcause, "NULL")
    ELSE "FAILED"

\* C22: finalizing a record whose end is unset sets end and, only when the
\* disposition is Null, derives it (Answered when answer is set, else from
\* Party A's hangup cause, else from Party B's, else Failed); a disposition
\* that is not Null is kept, and finalizing a record whose end is set
\* changes nothing.
FinalizeDerivesDispositionOnce ==
    (call.fn = "cdr_object_finalize" /\ call.done) =>
        IF call.cdr.end # 0
        THEN call.result = call.cdr
        ELSE /\ call.result.end = now
             /\ call.result.disposition =
                   (IF call.cdr.disposition # "NULL" THEN call.cdr.disposition
                    ELSE DerivedDisposition(call.cdr))
             /\ call.result = [call.cdr EXCEPT !.end = call.result.end,
                                               !.disposition = call.result.disposition]

\* A record with no answer whose Party A has no hangup cause and whose Party
\* B was busy is finalized, and so is a record whose end was set before.
FinalizedFromPartyBCause ==
    /\ call.fn = "cdr_object_finalize" /\ call.done
    /\ call.cdr.end = 0 /\ call.cdr.answer = 0 /\ call.cdr.disposition = "NULL"
    /\ call.cdr.party_a.snapshot.hangupcause = "NONE"
    /\ call.cdr.party_b.snapshot.hangupcause = "BUSY"
    /\ call.result.disposition = "BUSY"
    /\ call.result.end = MaxCallTime

\* The step delivers a dial begin to chain k, the chain of its caller.
DialBeginOnCaller(k) ==
    /\ last_event'.type = "dial_begin"
    /\ k = ao2_find_channel(chains, active_cdrs_by_channel, last_event'.channel)
    /\ k # 0
    /\ k = DialParties(chains, active_cdrs_by_channel, last_event'.channel,
                       last_event'.peer).cdr

\* That dial begin is the one delivered by the step before.
SameDialBeginAgain ==
    /\ last_event.type = "dial_begin"
    /\ last_event.channel = last_event'.channel
    /\ last_event.peer = last_event'.peer

\* The second of two deliveries of a dial begin appends one record, which
\* ends in Dial with the peer as Party B.
SecondDialBeginAppends(k) ==
    /\ Len(chains'[k]) = Len(chains[k]) + 1
    /\ chains'[k][Len(chains'[k])].fn_table = "Dial"
    /\ chains'[k][Len(chains'[k])].party_b.snapshot.name = last_event'.peer

\* C23: the same dial begin delivered twice to the caller's chain adds one
\* record in all: the first delivery is absorbed by a record of the chain,
\* the second appends one record, which ends in Dial with the peer as Party B.
DialBeginTwiceAddsOne ==
    [][\A k \in 1..Len(chains) :
          DialBeginOnCaller(k) =>
              IF SameDialBeginAgain
              THEN SecondDialBeginAppends(k)
              ELSE Len(chains'[k]) = Len(chains[k])]_vars

\* A chain with a record that takes a dial begin and none that answers it
\* with a new record.
AbsorbsDialBegin(chain) ==
    /\ \E i \in 1..Len(chain) : chain[i].fn_table \in {"Single", "Pending"}
    /\ \A i \in 1..Len(chain) : chain[i].fn_table # "DialedPending"

\* C23, for a caller's chain that holds a record in Single or Pending and
\* none in DialedPending before the first delivery.
DialBeginTwiceAddsOneToAbsorbing ==
    [][\A k \in 1..Len(chains) :
          DialBeginOnCaller(k) =>
              /\ SameDialBeginAgain => SecondDialBeginAppends(k)
              /\ (~SameDialBeginAgain /\ AbsorbsDialBegin(chains[k])) =>
                    Len(chains'[k]) = Len(chains[k])]_vars

\* A new caller's dial begin has been delivered twice: the chain holds the
\* record that absorbed the first and the record the second appended.
DialBeginDeliveredTwice ==
    /\ last_event.type = "dial_begin"
    /\ budget.events = 4 /\ budget.dials = 2
    /\ \E k \in 1..Len(chains) :
          /\ k = ao2_find_channel(chains, active_cdrs_by_channel, last_event.channel)
          /\ Len(chains[k]) = 2
          /\ \A i \in 1..2 : /\ chains[k][i].fn_table = "Dial"
                              /\ chains[k][i].party_b.snapshot.name = last_event.peer
          /\ chains[k][1].start < chains[k][2].start

\* The step delivers a bridge enter, a bridge leave or a dial event, and no
\* channel it names has a chain in the channel index.
NamesNoChain ==
    /\ last_event'.type \in {"bridge_enter", "bridge_leave", "dial_begin", "dial_end"}
    /\ ao2_find_channel(chains, active_cdrs_by_channel, last_event'.channel) = 0
    /\ ao2_find_channel(chains, active_cdrs_by_channel, last_event'.peer) = 0

\* The step delivers a bridge leave for a channel with a chain, no record of
\* which is Bridged in the bridge left.
LeavesNoBridge ==
    /\ last_event'.type = "bridge_leave"
    /\ EventChain # 0
    /\ \A i \in 1..Len(chains[EventChain]) :
          ~(/\ chains[EventChain][i].fn_table = "Bridged"
            /\ chains[EventChain][i].bridge = last_event'.bridge)

\* C24: a bridge enter, bridge leave or dial event that names only channels
\* with no chain changes no chain and neither index; a bridge leave for a
\* channel none of whose records is Bridged in that bridge changes no record,
\* appends none and leaves both indexes as they are.
InapplicableEventDropped ==
    [][(NamesNoChain \/ LeavesNoBridge) =>
          /\ chains' = chains
          /\ active_cdrs_by_channel' = active_cdrs_by_channel
          /\ active_cdrs_by_bridge' = active_cdrs_by_bridge
          /\ ~crashed']_vars

\* A bridge leave was dropped for a channel whose chain is still in the
\* bridge index.
DroppedLeaveOfLinkedChain ==
    /\ last_event.type = "bridge_leave"
    /\ \E k \in 1..Len(chains) :
          /\ k = ao2_find_channel(chains, active_cdrs_by_channel, last_event.channel)
          /\ k \in Linked(active_cdrs_by_bridge)
          /\ \A i \in 1..Len(chains[k]) : chains[k][i].fn_table # "Bridged"
          /\ chains[k][Len(chains[k])].fn_table # "Pending"

\* Record i of chain k after the step is the record before it, but for the
\* two userfields.
OnlyUserfields(k, i) ==
    [chains'[k][i] EXCEPT !.party_a.userfield = "", !.party_b.userfield = ""]
        = [chains[k][i] EXCEPT !.party_a.userfield = "", !.party_b.userfield = ""]

\* What set_userfield(c, v) does to record i of chain k.
UserfieldSet(k, i, c, v) ==
    /\ OnlyUserfields(k, i)
    /\ chains[k][i].fn_table = "Finalized" => chains'[k][i] = chains[k][i]
    /\ chains'[k][i].party_a.userfield =
          IF chains[k][i].fn_table # "Finalized"
             /\ k = ao2_find_channel(chains, active_cdrs_by_channel, c)
          THEN v ELSE chains[k][i].party_a.userfield
    /\ chains'[k][i].party_b.userfield =
          IF chains[k][i].fn_table # "Finalized"
             /\ chains[k][i].party_b.snapshot.name = c
          THEN v ELSE chains[k][i].party_b.userfield

\* C25: after set_userfield(C, v) every record of C's chain that is not
\* Finalized has Party A userfield v, every record that is not Finalized and
\* has C as Party B, on any chain an index holds, has Party B userfield v,
\* and nothing else of any record has changed.
SetUserfieldWritesLiveRecordsOnly ==
    [][last_event'.type = "userfield" =>
          /\ Len(chains') = Len(chains)
          /\ active_cdrs_by_channel' = active_cdrs_by_channel
          /\ active_cdrs_by_bridge' = active_cdrs_by_bridge
          /\ \A k \in Live :
                /\ Len(chains'[k]) = Len(chains[k])
                /\ \A i \in 1..Len(chains[k]) :
                      UserfieldSet(k, i, last_event'.channel, last_event'.userfield)]_vars

\* Record i of chain k after a reset at the time `now` of the step.
ResetRecord(k, i, options) ==
    /\ chains'[k][i].end = 0
    /\ chains'[k][i].start = now
    /\ chains'[k][i].answer = IF chains'[k][i].party_a.snapshot.up THEN now ELSE 0
    /\ "KeepVars" \notin options =>
          /\ chains'[k][i].party_a.variables = {}
          /\ chains'[k][i].party_b.variables = {}

\* C26: after reset(C, options) every record of C's chain has end unset,
\* start at the time of the reset and answer unset, or at the time of the
\* reset when Party A is Up; unless KeepVars is given no record of the chain
\* keeps a Party A or a Party B variable.
ResetClearsTimesAndVariables ==
    [][last_event'.type = "reset" =>
          /\ Len(chains'[EventChain]) = Len(chains[EventChain])
          /\ \A i \in 1..Len(chains[EventChain]) :
                ResetRecord(EventChain, i, last_event'.options)]_vars

\* The record the fork of this step appended to chain k carries state, Party B
\* and times of the record that was last before, by the options.
ForkCarries(k, options) ==
    /\ Len(chains'[k]) = Len(chains[k]) + 1
    /\ chains'[k][Len(chains'[k])].fn_table = chains[k][Len(chains[k])].fn_table
    /\ chains'[k][Len(chains'[k])].party_b.snapshot
          = chains[k][Len(chains[k])].party_b.snapshot
    /\ chains'[k][Len(chains'[k])].start =
          IF "Reset" \in options THEN now ELSE chains[k][Len(chains[k])].start
    /\ chains'[k][Len(chains'[k])].answer =
          IF "Reset" \in options THEN now
          ELSE IF "SetAnswer" \in options
                  /\ chains'[k][Len(chains'[k])].party_a.snapshot.up THEN now
          ELSE chains[k][Len(chains[k])].answer
    /\ \A i \in 1..Len(chains[k]) :
          /\ chains'[k][i].sequence = chains[k][i].sequence
          /\ "Finalize" \in options =>
                chains'[k][i].fn_table = "Finalized" /\ chains'[k][i].end # 0

\* C27: fork(C, options) on a chain whose last record is not Finalized appends
\* one record at the tail with the state, Party B and start/answer of the
\* record that was last (answer = now with SetAnswer when Party A is Up, start
\* = answer = now with Reset), and with Finalize leaves every earlier record
\* Finalized with end set; on a chain whose last record is Finalized it
\* changes nothing.
ForkAppendsCopyOfLast ==
    [][last_event'.type = "fork" =>
          IF chains[EventChain][Len(chains[EventChain])].fn_table = "Finalized"
          THEN chains' = chains
          ELSE ForkCarries(EventChain, last_event'.options)]_vars

\* The edges of the state machine: Single, Dial, DialedPending, Bridged,
\* Pending, Finalized.
ListedEdges ==
    {<<"Single", "Dial">>, <<"Single", "Bridged">>, <<"Single", "Finalized">>,
     <<"Dial", "DialedPending">>, <<"Dial", "Finalized">>, <<"Dial", "Bridged">>,
     <<"DialedPending", "Single">>, <<"DialedPending", "Finalized">>,
     <<"DialedPending", "Dial">>, <<"Bridged", "Finalized">>, <<"Pending", "Single">>}

\* C28: a record changes state only along the listed edges; in particular
\* no record leaves Finalized. Stated for every statement of the dial-begin
\* handler of a DialedPending record.
TransitionsAlongListedEdges ==
    [][call.fn = "dialed_pending_state_process_dial_begin" =>
          \A i \in 1..Len(call.chain) :
              \/ call'.chain[i].fn_table = call.chain[i].fn_table
              \/ <<call.chain[i].fn_table, call'.chain[i].fn_table>> \in ListedEdges]_vars

\* The step delivers a bridge leave for a live channel that has a chain, from
\* the bridge the channel had entered and not yet left.
LeavesEnteredBridge ==
    /\ last_event'.type = "bridge_leave"
    /\ cache[last_event'.channel].name # ""
    /\ in_bridge[last_event'.channel] = last_event'.bridge
    /\ EventChain # 0
    /\ ~crashed'

\* C29: after a bridge leave for a channel that had entered the bridge and
\* not yet left it, the channel's chain is no longer in the bridge index and
\* its tail is a newly appended record in Pending, whatever came before.
LeaveUnlinksAndAppendsPending ==
    [][LeavesEnteredBridge =>
          /\ EventChain \notin Linked(active_cdrs_by_bridge')
          /\ Len(chains'[EventChain]) = Len(chains[EventChain]) + 1
          /\ chains'[EventChain][Len(chains'[EventChain])].fn_table = "Pending"]_vars

\* The same, for a channel whose Bridged record was closed because its
\* Party B left the bridge first.
LeaveAfterPartyBLeftAppendsPending ==
    [][(/\ LeavesEnteredBridge
        /\ \E i \in 1..Len(chains[EventChain]) :
              /\ chains[EventChain][i].fn_table = "Finalized"
              /\ chains[EventChain][i].bridge = last_event'.bridge
              /\ HasSnapshot(chains[EventChain][i].party_b)
              /\ in_bridge[chains[EventChain][i].party_b.snapshot.name] = "") =>
          chains'[EventChain][Len(chains'[EventChain])].fn_table = "Pending"]_vars

\* Record i of chain k is Bridged in the bridge the step's channel leaves,
\* on another channel's chain, with that channel as its Party B.
BridgedWithLeaver(k, i) ==
    /\ k # EventChain
    /\ chains[k][i].fn_table = "Bridged"
    /\ chains[k][i].bridge = last_event'.bridge
    /\ HasSnapshot(chains[k][i].party_b)
    /\ chains[k][i].party_b.snapshot.name = last_event'.channel

\* C30: when a channel leaves a bridge, every Bridged record of that bridge
\* on another channel's chain whose Party B is the leaver gets its end time
\* and disposition but stays Bridged in that bridge.
PartyBLeaveKeepsBridged ==
    [][LeavesEnteredBridge =>
          \A k \in Live : \A i \in 1..Len(chains[k]) :
              BridgedWithLeaver(k, i) =>
                  /\ chains'[k][i].fn_table = "Bridged"
                  /\ chains'[k][i].bridge = last_event'.bridge
                  /\ chains'[k][i].end # 0
                  /\ chains'[k][i].disposition # "NULL"]_vars

\* Some record of bridge b has channels x and y as its two parties, in
\* either order.
PairRecorded(b, x, y) ==
    \E k \in Live : \E i \in 1..Len(chains[k]) :
        /\ chains[k][i].bridge = b
        /\ HasSnapshot(chains[k][i].party_b)
        /\ \/ /\ chains[k][i].party_a.snapshot.name = x
              /\ chains[k][i].party_b.snapshot.name = y
           \/ /\ chains[k][i].party_a.snapshot.name = y
              /\ chains[k][i].party_b.snapshot.name = x

\* Every two live channels of bridge b have such a record.
AllPairsRecorded(b) ==
    \A x \in Channels, y \in Channels :
        (/\ x # y
         /\ cache[x].name # "" /\ cache[y].name # ""
         /\ in_bridge[x] = b /\ in_bridge[y] = b) => PairRecorded(b, x, y)

HoldsBridgedRecord(x, b) ==
    \E k \in Linked(active_cdrs_by_channel) :
        /\ chains[k][1].name = x
        /\ \E i \in 1..Len(chains[k]) :
              chains[k][i].bridge = b /\ chains[k][i].fn_table = "Bridged"

RECURSIVE FirstBeatenInChain(_, _, _, _)
FirstBeatenInChain(party_a, chain, j, bridge_id) ==
    IF j > Len(chain) THEN ""
    ELSE IF ~InBridge(chain[j], bridge_id)
    THEN FirstBeatenInChain(party_a, chain, j + 1, bridge_id)
    ELSE IF PickedName(party_a, chain[j].party_a) = party_a.snapshot.name
    THEN chain[j].party_a.snapshot.name
    ELSE IF /\ HasSnapshot(chain[j].party_b)
            /\ PickedName(party_a, chain[j].party_b) = party_a.snapshot.name
    THEN chain[j].party_b.snapshot.name
    ELSE FirstBeatenInChain(party_a, chain, j + 1, bridge_id)

\* The same over the chains the bridge index returns, from the n-th on.
RECURSIVE FirstBeaten(_, _, _, _)
FirstBeaten(party_a, it_cdrs, n, bridge_id) ==
    IF n > Len(it_cdrs) THEN ""
    ELSE IF FirstBeatenInChain(party_a, chains[it_cdrs[n]], 1, bridge_id) # ""
    THEN FirstBeatenInChain(party_a, chains[it_cdrs[n]], 1, bridge_id)
    ELSE FirstBeaten(party_a, it_cdrs, n + 1, bridge_id)

\* The step delivers a bridge enter to a live channel whose chain is one
\* record in Single, which has no Party B.
SingleRecordEnters ==
    /\ last_event'.type = "bridge_enter"
    /\ cache[last_event'.channel].name # ""
    /\ ~cache[last_event'.channel].zombie
    /\ EventChain # 0
    /\ Len(chains[EventChain]) = 1
    /\ chains[EventChain][1].fn_table = "Single"
    /\ ~HasSnapshot(chains[EventChain][1].party_b)
    /\ ~crashed'

\* The records of other chains that the step gives an end time.
Stolen ==
    {r \in {<<k, i>> : k \in Live, i \in 1..MaxEvents} :
        /\ r[1] # EventChain
        /\ r[2] <= Len(chains[r[1]])
        /\ chains[r[1]][r[2]].end = 0
        /\ chains'[r[1]][r[2]].end # 0}

\* C32: the Party B the entering record ends up with is the first candidate,
\* in the order of the bridge index, that its Party A beats, and at most one
\* candidate record is finalized in place by one bridge enter.
SelfPairingTakesFirstCandidate ==
    [][SingleRecordEnters =>
          /\ chains'[EventChain][1].party_b.snapshot.name =
                FirstBeaten([chains[EventChain][1].party_a EXCEPT
                                !.snapshot = cache[last_event'.channel]],
                            BridgeLookup(chains, active_cdrs_by_bridge,
                                         last_event'.bridge),
                            1, last_event'.bridge)
          /\ Cardinality(Stolen) <= 1]_vars

\* The step delivers a dial begin to the caller's chain k, the peer has a
\* chain too, and record i of chain k is in DialedPending, every other
\* record of it in Finalized.
DialBeginOnDialedPending(k, i) ==
    /\ DialBeginOnCaller(k)
    /\ ao2_find_channel(chains, active_cdrs_by_channel, last_event'.peer) # 0
    /\ i \in 1..Len(chains[k])
    /\ chains[k][i].fn_table = "DialedPending"
    /\ \A j \in 1..Len(chains[k]) : j # i => chains[k][j].fn_table = "Finalized"
    /\ ~crashed'

\* C33: a dial begin delivered to a chain whose record is in DialedPending
\* leaves that record in Finalized with its Party B unchanged and appends
\* exactly one record, which is in Dial with the new peer as Party B.
DialedPendingDialBeginAppendsDial ==
    [][\A k \in 1..Len(chains) : \A i \in 1..MaxEvents :
          DialBeginOnDialedPending(k, i) =>
              /\ chains'[k][i].fn_table = "Finalized"
              /\ chains'[k][i].party_b = chains[k][i].party_b
              /\ Len(chains'[k]) = Len(chains[k]) + 1
              /\ chains'[k][Len(chains'[k])].fn_table = "Dial"
              /\ chains'[k][Len(chains'[k])].party_b.snapshot.name = last_event'.peer]_vars

\* The step delivers a channel update to a live channel that has a chain.
UpdateDelivered ==
    /\ last_event'.type = "update"
    /\ EventChain # 0
    /\ ~crashed'

\* The chain of the step's channel grows.
ChainGrows == Len(chains'[EventChain]) > Len(chains[EventChain])

\* The tail of that chain after the step, and before it.
NewTail == chains'[EventChain][Len(chains'[EventChain])]

OldTail == chains[EventChain][Len(chains[EventChain])]

\* The update is a CEP change of a channel that is not hung up and runs an
\* application.
CepChangeUpdate ==
    /\ \/ cache'[last_event'.channel].cep # cache[last_event'.channel].cep
       \/ cache'[last_event'.channel].appl # cache[last_event'.channel].appl
    /\ ~cache'[last_event'.channel].zombie
    /\ cache'[last_event'.channel].appl # ""

\* A channel update appends one record at most, only on a CEP change and
\* never to a chain that holds a record in Single, Dial, Bridged or Pending;
\* the record appended is in Single with the new snapshot as Party A and no
\* Party B.
UpdateAppendsSingle ==
    /\ (\E i \in 1..Len(chains[EventChain]) :
           chains[EventChain][i].fn_table \in {"Single", "Dial", "Bridged", "Pending"})
          => ~ChainGrows
    /\ ChainGrows =>
          /\ CepChangeUpdate
          /\ Len(chains'[EventChain]) = Len(chains[EventChain]) + 1
          /\ NewTail.fn_table = "Single"
          /\ NewTail.party_a.snapshot = cache'[last_event'.channel]
          /\ ~HasSnapshot(NewTail.party_b)

HangupDelivered ==
    /\ UpdateDelivered
    /\ cache'[last_event'.channel].zombie

\* C35: after a channel update whose new snapshot has the Zombie flag every
\* record of the channel's chain is in Finalized, whatever state it was in,
\* and no record has been appended.
HangupFinalizesEveryRecord ==
    [][HangupDelivered =>
          /\ Len(chains'[EventChain]) = Len(chains[EventChain])
          /\ \A i \in 1..Len(chains'[EventChain]) :
                chains'[EventChain][i].fn_table = "Finalized"]_vars

\* C35, amended: every record but one in Pending is in Finalized after the
\* update; a record in Pending stays in Pending.
HangupFinalizesAllButPending ==
    [][HangupDelivered =>
          /\ Len(chains'[EventChain]) = Len(chains[EventChain])
          /\ \A i \in 1..Len(chains[EventChain]) :
                chains'[EventChain][i].fn_table =
                    IF chains[EventChain][i].fn_table = "Pending"
                    THEN "Pending" ELSE "Finalized"]_vars

\* A hangup has just closed a record that was still open and has an end
\* time from this step.
HangupClosedRecord ==
    /\ last_event.type = "update" /\ ~crashed
    /\ cache[last_event.channel].zombie
    /\ \E k \in Linked(active_cdrs_by_channel) :
          /\ chains[k][1].name = last_event.channel
          /\ Len(chains[k]) >= 2
          /\ chains[k][Len(chains[k])].fn_table = "Finalized"
          /\ chains[k][Len(chains[k])].party_a.snapshot.zombie
          /\ chains[k][Len(chains[k])].end = now - 1

\* The step delivers a bridge leave to a chain that holds a record whose
\* table has base_process_bridge_leave as its handler, which asserts.
BridgeLeaveAsserts ==
    /\ last_event'.type = "bridge_leave"
    /\ EventChain # 0
    /\ \E i \in 1..Len(chains[EventChain]) :
          chains[EventChain][i].fn_table
              \in {"Single", "Dial", "DialedPending", "Pending"}

\* The step delivers a dial end to a chain that holds a record whose table
\* has base_process_dial_end as its handler, which asserts.
DialEndAsserts ==
    /\ last_event'.type = "dial_end"
    /\ \E k \in 1..Len(chains) :
          /\ k = DialParties(chains, active_cdrs_by_channel, last_event'.channel,
                             last_event'.peer).cdr
          /\ \E i \in 1..Len(chains[k]) :
                chains[k][i].fn_table \in {"Single", "Pending"}

\* The step delivers a channel update and its Party B scan reaches a record
\* in Single, whose handler asserts and leaves the record as it is.
PartyBUpdateAsserts ==
    /\ last_event'.type \in {"create", "update"}
    /\ \E k \in Linked(active_cdrs_by_channel') : \E i \in 1..Len(chains'[k]) :
          /\ chains'[k][i].fn_table = "Single"
          /\ HasSnapshot(chains'[k][i].party_b)
          /\ chains'[k][i].party_b.snapshot.name = last_event'.channel

\* C36: no event sequence makes a state handler hit one of its assertions:
\* a Party B update never reaches a record in Single, a bridge leave is
\* never delivered to a record in Single, Dial, DialedPending or Pending,
\* and a dial end is never delivered to a record in Single or Pending.
NoHandlerAsserts ==
    [][~PartyBUpdateAsserts /\ ~BridgeLeaveAsserts /\ ~DialEndAsserts]_vars

\* The positions of the chain the step's event is for.
EventRecords == IF EventChain = 0 THEN {} ELSE 1..Len(chains[EventChain])

\* Record i of the chain the step's event is for is in Dial or
\* DialedPending and has no Party B.
DialWithoutPartyB(i) ==
    /\ chains[EventChain][i].fn_table \in {"Dial", "DialedPending"}
    /\ ~HasSnapshot(chains[EventChain][i].party_b)

\* The step delivers a bridge enter to a chain with such a record while the
\* bridge already holds a Bridged record of another chain.
EnterWithoutPartyB(i) ==
    /\ last_event'.type = "bridge_enter"
    /\ DialWithoutPartyB(i)
    /\ \E k \in Linked(active_cdrs_by_bridge) : \E j \in 1..Len(chains[k]) :
          k # EventChain /\ InBridge(chains[k][j], last_event'.bridge)

\* The step delivers a dial begin whose caller has a chain and whose peer
\* has none.
DialBeginWithoutPeerChain ==
    /\ last_event'.type = "dial_begin"
    /\ last_event'.channel # "" /\ last_event'.peer # ""
    /\ EventChain # 0
    /\ ao2_find_channel(chains, active_cdrs_by_channel, last_event'.peer) = 0

\* C37: a bridge enter delivered to a Dial or DialedPending record that has
\* no Party B while the bridge already holds a Bridged record, and a dial
\* begin whose caller has a chain but whose peer has none, both complete
\* without a read of the absent snapshot: the record is left in Bridged
\* respectively a record of the chain in Dial, with Party B absent and no
\* chain lock held.
AbsentPartyBNeverRead ==
    [][/\ \A i \in EventRecords :
             (EnterWithoutPartyB(i) =>
                /\ ~crashed'
                /\ chains'[EventChain][i].fn_table = "Bridged"
                /\ lock_audit'.held = <<>>)
        /\ (DialBeginWithoutPeerChain =>
                /\ ~crashed'
                /\ chains'[EventChain][Len(chains'[EventChain])].fn_table = "Dial"
                /\ ~HasSnapshot(chains'[EventChain][Len(chains'[EventChain])].party_b)
                /\ lock_audit'.held = <<>>)]_vars

\* The bridge-enter half of C37 on its own.
EnterWithoutPartyBCompletes ==
    [][\A i \in EventRecords : EnterWithoutPartyB(i) => ~crashed']_vars

\* The dial-begin half of C37 on its own.
DialBeginWithoutPeerCompletes ==
    [][DialBeginWithoutPeerChain => ~crashed']_vars

\* Record (k, j) is in Pending after the step and was not before: it was
\* appended as a Pending record or has moved to Pending.
BecomesPending(k, j) ==
    /\ j \in 1..Len(chains'[k])
    /\ chains'[k][j].fn_table = "Pending"
    /\ j <= Len(chains[k]) => chains[k][j].fn_table # "Pending"

\* Record (k, j) was in Pending before the step and is not after it.
LeavesPending(k, j) ==
    /\ j \in 1..Len(chains[k])
    /\ chains[k][j].fn_table = "Pending"
    /\ chains'[k][j].fn_table # "Pending"

\* Every record of chain k but record j has the Disable flag after the step
\* exactly if it had it before.
DisableKeptButOn(k, j) ==
    \A i \in 1..Len(chains[k]) :
        i # j => (("Disable" \in chains'[k][i].flags) <=> ("Disable" \in chains[k][i].flags))

\* C38: a step in which a record becomes Pending, or in which a Pending
\* record moves on to Single, leaves the Disable flag of every other record
\* of the chain as it was.
PendingDisableOnThatRecordOnly ==
    [][\A k \in 1..Len(chains) : \A j \in 1..Len(chains'[k]) :
          (BecomesPending(k, j) \/ LeavesPending(k, j)) => DisableKeptButOn(k, j)]_vars

\* The first half of C38 on its own: the step that makes a Pending record.
PendingCreationKeepsOthers ==
    [][\A k \in 1..Len(chains) : \A j \in 1..Len(chains'[k]) :
          BecomesPending(k, j) => DisableKeptButOn(k, j)]_vars

\* The second half of C38 on its own: the step that takes a record from
\* Pending to Single.
PendingLeaveKeepsOthers ==
    [][\A k \in 1..Len(chains) : \A j \in 1..Len(chains'[k]) :
          LeavesPending(k, j) => DisableKeptButOn(k, j)]_vars

\* The chains of channels that are gone: dispatched by the channel-gone
\* handler and no longer in the channel index.
GoneChains ==
    {k \in {dispatched[n].chain : n \in 1..Len(dispatched)} :
        running /\ k \notin Linked(active_cdrs_by_channel)}

\* No chain of a gone channel is in the bridge index, where a bridge enter
\* looks for its pairing candidates.
GoneChainInNeitherIndex ==
    \A k \in GoneChains : k \notin Linked(active_cdrs_by_bridge)

\* No step changes a record of the chain of a gone channel.
GoneChainNeverChanges ==
    [][\A k \in GoneChains : chains'[k] = chains[k]]_vars

\* C39: once a channel is gone and its chain has been dispatched the chain
\* is in neither index, so that no later bridge enter finds it as a pairing
\* candidate, and no later event changes any of its records.
GoneChainIsOut ==
    [][/\ GoneChainInNeitherIndex'
        /\ \A k \in GoneChains : chains'[k] = chains[k]]_vars

\* C40: every event handler and API call that returns has released every
\* chain lock it took, on every return path, so that no chain lock is owned
\* by a thread that is in no call and an event for the same channel on
\* another thread can take the lock.
CallsReleaseChainLocks ==
    [][~crashed' => lock_audit'.held = <<>> /\ leaked' = {}]_vars

\* ast_cdr_serialize_variables on its own: its return leaves no lock held.
SerializeReleasesLock ==
    [][last_event'.type = "serialize" => lock_audit'.held = <<>>]_vars

\* handle_dial_message on its own: its return leaves no lock held.
DialReleasesLock ==
    [][last_event'.type \in {"dial_begin", "dial_end"} /\ ~crashed'
          => lock_audit'.held = <<>>]_vars

\* No channel the bus still has events for is behind a lock whose owner has
\* returned: a handler on another thread would wait for that lock for ever.
NoLiveChainBehindLeakedLock ==
    \A l \in leaked : l.chain \notin Linked(active_cdrs_by_channel)

====
